---- MODULE Spec2Model ----
(***************************************************************************)
(* Model of the transcode worker's agent control loop (unified-sync        *)
(* variant): cmd/worker/main.go (syncLoop, performSync, resolveJobPaths,   *)
(* executeJob, finalizeJob, shutdown) and the FFmpeg transcoder driver     *)
(* (Execute, transcodeRendition, copyDirectory, copyFile).                 *)
(*                                                                         *)
(* Goroutines are modelled as processes with a program counter each: the   *)
(* sync loop (spc), one executor per accepted job (epc[j]) and the main    *)
(* goroutine that runs shutdown (mpc).  A critical section of jobMutex is  *)
(* one atomic step; every blocking call (HTTP request, subprocess, file    *)
(* I/O) separates two steps.                                               *)
(***************************************************************************)
EXTENDS Integers, Sequences, FiniteSets, TLC

\* ---------------------------------------------------------------- bounds --
\* number of job assignments the orchestrator hands out in one run
MaxJobs == 2
\* renditions of a job, files staged per rendition and chunks per file
MaxRend == 2
MaxFiles == 2
FileSize == 2
\* slots of the progress channel's buffer, and UpdateJobStatus calls
\* followed per job
ChanCap == 2
MaxUpdates == 2
\* progress lines on a transcoder's stderr, and the largest time= value
\* (in seconds) such a line carries
MaxLines == 3
MaxTime == 3
\* the largest fps= value such a line carries
MaxFps == 2
\* characters of a job path, and resolutions followed for one path
MaxPath == 3
MaxResolves == 2

Jobs == 1..MaxJobs
\* the nil job pointer / the empty current_job_id
NoJob == 0

VARIABLES
    \* Worker fields
    currentJob,     \* w.currentJob: NoJob or the job in the slot
    cancelJob,      \* w.cancelJob: NoJob or the job whose context it cancels
    shutdownCh,     \* TRUE once close(w.shutdownCh) ran
    \* main goroutine, and the calls it made at startup with their results
    mpc, startLog,
    \* sync loop goroutine, the locals of performSync, the calls the tick
    \* in progress has made and what syncLoop logged when the last tick
    \* returned
    spc, stats, payload, syncResp, tickLog, loopLog,
    \* orchestrator side: next fresh job id
    nextJob,
    \* per job: its spec, the executor goroutine, its context, the error
    \* the driver returned, the Finalize calls the orchestrator received
    job, epc, ctxDone, execErr, finalized,
    \* per job: the driver's locals, the staging area, the destinations and
    \* the subprocesses started
    rend, files, tempDir, staged, dest, spawned,
    \* per job: the progress channel (its buffer and whether it was
    \* closed), the reporter goroutine with its lastProgress, and the
    \* progress values of the UpdateJobStatus calls issued
    progressCh, chClosed, rpc, lastProgress, updates,
    \* per job: the duration the prober returned, the number of progress
    \* lines read from the transcoder's stderr and the time= of the last one
    duration, lines, clock,
    \* orchestrator client: the request in progress (its position and
    \* endpoint), what each attempt of it met, and the error returned
    cpc, endpoint, tries, cresult,
    \* legacy variant: the job polling goroutine and its load snapshot
    ppc, pstats,
    \* per job: the progress sample the stderr reader built last
    sample,
    \* cfg.NasMountPath, a path as the orchestrator sent it, the job's
    \* field that holds it and the number of times it was resolved
    NasMountPath, rawPath, jobPath, resolves,
    \* the audio settings of a job as the orchestrator sent them, and the
    \* audio arguments the driver passed to the transcoder
    audio, args,
    \* per job: the stderr reader goroutine the driver started
    reader,
    \* TRUE once a goroutine panicked, which ends the process
    panicked

workerVars == <<currentJob, cancelJob, shutdownCh>>
syncVars == <<spc, stats, payload, syncResp, tickLog, loopLog>>
orchVars == <<nextJob, job>>
execVars == <<epc, ctxDone, execErr>>
fsVars == <<rend, files, tempDir, staged, dest, spawned>>
reportVars == <<progressCh, chClosed, rpc, lastProgress, updates>>
progVars == <<duration, lines, clock>>
clientVars == <<cpc, endpoint, tries, cresult>>
pollVars == <<ppc, pstats>>
pathVars == <<NasMountPath, rawPath, jobPath, resolves>>
audioVars == <<audio, args>>
calcVars == <<sample, pathVars, audioVars, reader, panicked>>
vars == <<currentJob, cancelJob, shutdownCh, mpc, startLog, spc, stats, payload,
          syncResp, tickLog, loopLog, nextJob, job, epc, ctxDone, execErr,
          finalized,
          rend, files, tempDir, staged, dest, spawned,
          progressCh, chClosed, rpc, lastProgress, updates,
          duration, lines, clock, cpc, endpoint, tries, cresult,
          ppc, pstats, sample, NasMountPath, rawPath, jobPath, resolves,
          audio, args, reader, panicked>>

\* --------------------------------------------------------------- helpers --
\* a file that does not exist has size Absent
Absent == -1

\* the duration of a job whose input the prober has not measured yet
Unprobed == -2

\* the zero value of models.JobProgress
NoSample == [percent |-> 0, fps |-> 0, eta |-> 0]

\* the nil error
NoError == [type |-> "nil", msg |-> ""]

\* the main goroutine has not returned and the process has not exited or
\* died of a panic: every goroutine can still run
Alive == mpc \notin {"exit", "fatal"} /\ ~panicked

\* executor program counters at which the goroutine exists and has not
\* returned from executeJob
Running == {"spawned", "filled", "execute", "probe", "rendition", "start",
            "ffmpeg", "commit", "create", "write", "sync", "cleanup",
            "close", "join", "finalize", "clear"}

\* performSync's payload and response while no tick is in progress
NoPayload == [status |-> "", current_job_id |-> NoJob]
NoAssignment == [job_id |-> NoJob]

NoJobSpec == [input |-> "none", nRend |-> 0]

EmptyDest == [r \in 1..MaxRend |-> [f \in 1..MaxFiles |-> Absent]]

\* the worker main constructs, and the state no goroutine has touched
InitFields ==
    /\ currentJob = NoJob
    /\ cancelJob = NoJob
    /\ shutdownCh = FALSE
    /\ stats = FALSE
    /\ payload = NoPayload
    /\ syncResp = NoAssignment
    /\ tickLog = << >>
    /\ loopLog = ""
    /\ ctxDone = [j \in Jobs |-> FALSE]
    /\ execErr = [j \in Jobs |-> "nil"]
    /\ finalized = [j \in Jobs |-> << >>]
    /\ rend = [j \in Jobs |-> 0]
    /\ files = [j \in Jobs |-> {}]
    /\ tempDir = [j \in Jobs |-> {}]
    /\ staged = [j \in Jobs |-> [r \in 1..MaxRend |-> {}]]
    /\ dest = [j \in Jobs |-> EmptyDest]
    /\ spawned = [j \in Jobs |-> << >>]
    /\ progressCh = [j \in Jobs |-> << >>]
    /\ chClosed = [j \in Jobs |-> FALSE]
    /\ rpc = [j \in Jobs |-> "select"]
    /\ lastProgress = [j \in Jobs |-> 0]
    /\ updates = [j \in Jobs |-> << >>]
    /\ duration = [j \in Jobs |-> Unprobed]
    /\ lines = [j \in Jobs |-> 0]
    /\ clock = [j \in Jobs |-> 0]
    /\ cpc = "idle"
    /\ endpoint = "none"
    /\ tries = << >>
    /\ cresult = NoError
    /\ pstats = FALSE
    /\ sample = [j \in Jobs |-> NoSample]
    /\ reader = [j \in Jobs |-> "none"]
    /\ panicked = FALSE

\* the configured mount of the shared store
DefaultMount == <<"/", "m">>

\* no job path is being resolved
NoPaths ==
    /\ NasMountPath = DefaultMount
    /\ rawPath = << >>
    /\ jobPath = << >>
    /\ resolves = 0

\* the audio arguments before the command line is built
NoArgs == [codec |-> "", bitrate |-> ""]

\* a job that says nothing about audio
NoAudioSettings ==
    [output |-> [audio_codec |-> "", audio_bitrate |-> ""],
     audio_config |-> [codec |-> "", bitrate |-> ""],
     profile |-> [audio_codec |-> "", audio_bitrate |-> ""]]

\* no command line is being built
NoAudio ==
    /\ audio = NoAudioSettings
    /\ args = NoArgs

\* nothing is being computed apart from the worker's goroutines
NoCalc == NoPaths /\ NoAudio

\* what main has logged once startup went through
Started == <<"capabilities:ok", "register:ok">>

\* the worker after main registered it and started the sync loop
InitWorker ==
    /\ InitFields
    /\ NoCalc
    /\ mpc = "run"
    /\ startLog = Started
    /\ spc = "wait"
    /\ ppc = "unstarted"

\* --------------------------------------------------------------- startup --
\* main: discover the capabilities; a failure is fatal (log.Fatalf exits
\* the process)
GetCapabilities ==
    /\ mpc = "discover"
    /\ \/ /\ mpc' = "register"
          /\ startLog' = Append(startLog, "capabilities:ok")
       \/ /\ mpc' = "fatal"
          /\ startLog' = Append(startLog, "capabilities:err")
    /\ UNCHANGED <<workerVars, syncVars, orchVars, execVars, finalized,
                   fsVars, reportVars, progVars, clientVars, pollVars,
                   calcVars>>

\* a main that logs a failed registration and starts the sync loop anyway
InitialRegisterGoesOn ==
    /\ mpc = "register"
    /\ \E r \in {"register:ok", "register:err"} :
          startLog' = Append(startLog, r)
    /\ mpc' = "run"
    /\ spc' = "wait"
    /\ UNCHANGED <<workerVars, stats, payload, syncResp, tickLog, loopLog,
                   orchVars, execVars, finalized, fsVars, reportVars,
                   progVars, clientVars, pollVars,
                   calcVars>>

\* main: the initial registration; a failure is fatal, after a success
\* main starts the sync loop and waits for a signal
InitialRegister ==
    /\ mpc = "register"
    /\ \/ /\ startLog' = Append(startLog, "register:ok")
          /\ mpc' = "run"
          /\ spc' = "wait"
       \/ /\ startLog' = Append(startLog, "register:err")
          /\ mpc' = "fatal"
          /\ UNCHANGED spc
    /\ UNCHANGED <<workerVars, stats, payload, syncResp, tickLog, loopLog,
                   orchVars, execVars, finalized, fsVars, reportVars,
                   progVars, clientVars, pollVars,
                   calcVars>>

main == GetCapabilities \/ InitialRegister

\* ------------------------------------------------------------- sync loop --
\* the status derived from the host load first: an overloaded host reports
\* BUSY with an empty id even while a job is in the slot
DeriveStatusLoadFirst(cj, isBusy) ==
    IF isBusy
    THEN [status |-> "BUSY", current_job_id |-> NoJob]
    ELSE IF cj # NoJob
         THEN [status |-> "BUSY", current_job_id |-> cj]
         ELSE [status |-> "IDLE", current_job_id |-> NoJob]

\* status derivation of performSync, under jobMutex
DeriveStatus(cj, isBusy) ==
    IF cj # NoJob
    THEN [status |-> "BUSY", current_job_id |-> cj]
    ELSE IF isBusy
         THEN [status |-> "BUSY", current_job_id |-> NoJob]
         ELSE [status |-> "IDLE", current_job_id |-> NoJob]

\* the line syncLoop logs when performSync returned an error
SyncFailed == "Sync failed"

\* the errors performSync returns
ErrStats == "failed to get stats"
ErrSync == "sync failed"
ErrRegister == "re-registration failed"
ErrRetry == "sync retry after registration failed"

\* a sync loop that returns when performSync returned an error
TickReturnsStops(err) ==
    /\ spc' = IF err # "nil" THEN "exited" ELSE "wait"
    /\ stats' = FALSE
    /\ payload' = NoPayload
    /\ syncResp' = NoAssignment
    /\ tickLog' = << >>
    /\ loopLog' = IF err # "nil" THEN SyncFailed ELSE ""

\* performSync returns err: its locals are gone, syncLoop logs that the
\* tick failed if err is not nil and waits for the ticker
TickReturns(err) ==
    /\ spc' = "wait"
    /\ stats' = FALSE
    /\ payload' = NoPayload
    /\ syncResp' = NoAssignment
    /\ tickLog' = << >>
    /\ loopLog' = IF err # "nil" THEN SyncFailed ELSE ""

\* performSync returns nil
TickEnd == TickReturns("nil")

\* a tick that logs a failed snapshot and goes on without one
TickGoesOn ==
    /\ Alive
    /\ spc = "wait"
    /\ \/ \E b \in BOOLEAN :
            /\ stats' = b
            /\ spc' = "derive"
            /\ tickLog' = <<"stats:ok">>
            /\ loopLog' = ""
            /\ UNCHANGED <<payload, syncResp>>
       \/ /\ stats' = FALSE
          /\ spc' = "derive"
          /\ tickLog' = <<"stats:err">>
          /\ loopLog' = SyncFailed
          /\ UNCHANGED <<payload, syncResp>>
    /\ UNCHANGED reportVars
    /\ UNCHANGED progVars
    /\ UNCHANGED clientVars
    /\ UNCHANGED startLog
    /\ UNCHANGED pollVars
    /\ UNCHANGED calcVars
    /\ UNCHANGED <<workerVars, mpc, orchVars, execVars, finalized, fsVars>>

\* syncLoop: the ticker fires; performSync starts and takes the load
\* snapshot, which may fail and end the tick
Tick ==
    /\ Alive
    /\ spc = "wait"
    /\ \/ \E b \in BOOLEAN :
            /\ stats' = b
            /\ spc' = "derive"
            /\ tickLog' = <<"stats:ok">>
            /\ loopLog' = ""
            /\ UNCHANGED <<payload, syncResp>>
       \/ TickReturns(ErrStats)
    /\ UNCHANGED reportVars
    /\ UNCHANGED progVars
    /\ UNCHANGED clientVars
    /\ UNCHANGED startLog
    /\ UNCHANGED pollVars
    /\ UNCHANGED calcVars
    /\ UNCHANGED <<workerVars, mpc, orchVars, execVars, finalized, fsVars>>

\* syncLoop: the shutdown channel is closed; the loop returns (wg.Done)
LoopExit ==
    /\ Alive
    /\ spc = "wait"
    /\ shutdownCh
    /\ spc' = "exited"
    /\ UNCHANGED reportVars
    /\ UNCHANGED progVars
    /\ UNCHANGED clientVars
    /\ UNCHANGED startLog
    /\ UNCHANGED pollVars
    /\ UNCHANGED calcVars
    /\ UNCHANGED <<workerVars, mpc, stats, payload, syncResp, tickLog,
                   loopLog, orchVars, execVars, finalized, fsVars>>

\* performSync: derive the status and build the payload
Derive ==
    /\ Alive
    /\ spc = "derive"
    /\ payload' = DeriveStatus(currentJob, stats)
    /\ spc' = "sync"
    /\ UNCHANGED reportVars
    /\ UNCHANGED progVars
    /\ UNCHANGED clientVars
    /\ UNCHANGED startLog
    /\ UNCHANGED pollVars
    /\ UNCHANGED calcVars
    /\ UNCHANGED <<workerVars, mpc, stats, syncResp, tickLog, loopLog,
                   orchVars, execVars, finalized, fsVars>>

\* the job specs the orchestrator may hand out
JobSpecs(R) ==
    [input : {"none", "absent", "present"}, nRend : R]

\* the orchestrator answers a Sync: an ack, possibly with a fresh job;
\* the payload has been sent and is not read again.  The jobs it hands out
\* have MaxRend outputs: the sync loop only asks whether a job has outputs
\* (resolveJobPaths creates one directory per output)
SyncOk ==
    \/ /\ TickEnd
       /\ UNCHANGED nextJob
    \/ /\ nextJob <= MaxJobs
       /\ \E js \in JobSpecs({MaxRend}) :
             syncResp' = [job_id |-> nextJob, spec |-> js]
       /\ nextJob' = nextJob + 1
       /\ tickLog' = Append(tickLog, "sync:ok")
       /\ payload' = NoPayload
       /\ spc' = "assigned"
       /\ UNCHANGED <<stats, loopLog>>

\* a Sync whose failure makes the worker forget its job
SyncCallResets ==
    /\ Alive
    /\ spc = "sync"
    /\ \/ SyncOk /\ UNCHANGED workerVars
       \/ /\ tickLog' = Append(tickLog, "sync:404")
          /\ spc' = "register"
          /\ UNCHANGED <<stats, payload, syncResp, loopLog, nextJob>>
          /\ UNCHANGED workerVars
       \/ /\ TickReturns(ErrSync)
          /\ currentJob' = NoJob
          /\ cancelJob' = NoJob
          /\ UNCHANGED <<nextJob, shutdownCh>>
    /\ UNCHANGED reportVars
    /\ UNCHANGED progVars
    /\ UNCHANGED clientVars
    /\ UNCHANGED startLog
    /\ UNCHANGED pollVars
    /\ UNCHANGED calcVars
    /\ UNCHANGED <<mpc, job, execVars, finalized, fsVars>>

\* performSync: the first Sync request of the tick
SyncCall ==
    /\ Alive
    /\ spc = "sync"
    /\ \/ SyncOk
       \/ /\ tickLog' = Append(tickLog, "sync:404")
          /\ spc' = "register"
          /\ UNCHANGED <<stats, payload, syncResp, loopLog, nextJob>>
       \/ /\ TickReturns(ErrSync)
          /\ UNCHANGED nextJob
    /\ UNCHANGED reportVars
    /\ UNCHANGED progVars
    /\ UNCHANGED clientVars
    /\ UNCHANGED startLog
    /\ UNCHANGED pollVars
    /\ UNCHANGED calcVars
    /\ UNCHANGED <<workerVars, mpc, job, execVars, finalized, fsVars>>

\* a re-registration that starts the worker over: it empties the slot
RegisterResets ==
    /\ Alive
    /\ spc = "register"
    /\ \/ /\ tickLog' = Append(tickLog, "register:ok")
          /\ spc' = "retry"
          /\ currentJob' = NoJob
          /\ cancelJob' = NoJob
          /\ UNCHANGED <<stats, payload, syncResp, loopLog>>
       \/ /\ TickReturns(ErrRegister)
          /\ UNCHANGED <<currentJob, cancelJob>>
    /\ UNCHANGED reportVars
    /\ UNCHANGED progVars
    /\ UNCHANGED clientVars
    /\ UNCHANGED startLog
    /\ UNCHANGED pollVars
    /\ UNCHANGED calcVars
    /\ UNCHANGED <<shutdownCh, mpc, orchVars, execVars, finalized, fsVars>>

\* performSync: re-registration after the orchestrator lost its state
Register ==
    /\ Alive
    /\ spc = "register"
    /\ \/ /\ tickLog' = Append(tickLog, "register:ok")
          /\ spc' = "retry"
          /\ UNCHANGED <<stats, payload, syncResp, loopLog>>
       \/ TickReturns(ErrRegister)
    /\ UNCHANGED reportVars
    /\ UNCHANGED progVars
    /\ UNCHANGED clientVars
    /\ UNCHANGED startLog
    /\ UNCHANGED pollVars
    /\ UNCHANGED calcVars
    /\ UNCHANGED <<workerVars, mpc, orchVars, execVars, finalized, fsVars>>

\* a retry that treats a second 404 like the first one and registers again
SyncRetryAgain ==
    /\ Alive
    /\ spc = "retry"
    /\ \/ SyncOk
       \/ /\ tickLog' = Append(tickLog, "sync:404")
          /\ spc' = "register"
          /\ UNCHANGED <<stats, payload, syncResp, loopLog, nextJob>>
       \/ /\ TickReturns(ErrRetry)
          /\ UNCHANGED nextJob
    /\ UNCHANGED reportVars
    /\ UNCHANGED progVars
    /\ UNCHANGED clientVars
    /\ UNCHANGED startLog
    /\ UNCHANGED pollVars
    /\ UNCHANGED calcVars
    /\ UNCHANGED <<workerVars, mpc, job, execVars, finalized, fsVars>>

\* performSync: the one retry of Sync after a successful re-registration
SyncRetry ==
    /\ Alive
    /\ spc = "retry"
    /\ \/ SyncOk
       \/ /\ TickReturns(ErrRetry)
          /\ UNCHANGED nextJob
    /\ UNCHANGED reportVars
    /\ UNCHANGED progVars
    /\ UNCHANGED clientVars
    /\ UNCHANGED startLog
    /\ UNCHANGED pollVars
    /\ UNCHANGED calcVars
    /\ UNCHANGED <<workerVars, mpc, job, execVars, finalized, fsVars>>

\* performSync: an assignment arrived; read the slot under jobMutex
CheckIdle ==
    /\ Alive
    /\ spc = "assigned"
    /\ spc' = IF currentJob = NoJob THEN "resolve" ELSE "reject"
    /\ UNCHANGED reportVars
    /\ UNCHANGED progVars
    /\ UNCHANGED clientVars
    /\ UNCHANGED startLog
    /\ UNCHANGED pollVars
    /\ UNCHANGED calcVars
    /\ UNCHANGED <<workerVars, mpc, stats, payload, syncResp, tickLog,
                   loopLog, orchVars, execVars, finalized, fsVars>>

\* performSync: the slot was occupied; log the rejection, which reads
\* w.currentJob.JobID without jobMutex, and return.  The read races with
\* the executor that empties the slot: it finds the job, or, once the
\* slot is empty, it may find nil, and the nil dereference panics
Reject ==
    /\ Alive
    /\ spc = "reject"
    /\ \/ /\ epc' = [epc EXCEPT ![syncResp.job_id] = "rejected"]
          /\ TickEnd
          /\ UNCHANGED panicked
       \/ /\ currentJob = NoJob
          /\ panicked' = TRUE
          /\ UNCHANGED <<syncVars, epc>>
    /\ UNCHANGED reportVars
    /\ UNCHANGED progVars
    /\ UNCHANGED clientVars
    /\ UNCHANGED startLog
    /\ UNCHANGED pollVars
    /\ UNCHANGED <<sample, pathVars, audioVars, reader>>
    /\ UNCHANGED <<workerVars, mpc, orchVars, ctxDone, execErr, finalized,
                   fsVars>>

\* resolveJobPaths: nil or the error it returns when the input is unusable
resolveJobPaths(js) ==
    CASE js.input = "none" -> "job has no input source specified"
      [] js.input = "absent" -> "input file does not exist"
      [] OTHER -> "nil"

\* performSync: the slot was empty; resolve the paths and, if that worked,
\* start the executor goroutine
Accept ==
    /\ Alive
    /\ spc = "resolve"
    /\ LET j == syncResp.job_id
           err == resolveJobPaths(syncResp.spec)
       IN /\ job' = [job EXCEPT ![j] = syncResp.spec]
          /\ \/ /\ err # "nil"
                /\ epc' = [epc EXCEPT ![j] = "unresolved"]
             \/ /\ err = "nil"
                /\ syncResp.spec.nRend > 0
                \* os.MkdirAll of a destination directory failed
                /\ epc' = [epc EXCEPT ![j] = "unresolved"]
             \/ /\ err = "nil"
                /\ epc' = [epc EXCEPT ![j] = "spawned"]
    /\ TickEnd
    /\ UNCHANGED reportVars
    /\ UNCHANGED progVars
    /\ UNCHANGED clientVars
    /\ UNCHANGED startLog
    /\ UNCHANGED pollVars
    /\ UNCHANGED calcVars
    /\ UNCHANGED <<workerVars, mpc, nextJob, ctxDone, execErr, finalized,
                   fsVars>>

performSync ==
    \/ Derive \/ SyncCall \/ Register \/ SyncRetry \/ CheckIdle \/ Reject
    \/ Accept

syncLoop == Tick \/ LoopExit \/ performSync

\* -------------------------------------------------------------- executor --
\* executeJob: fill the slot under jobMutex
Fill(j) ==
    /\ Alive
    /\ epc[j] = "spawned"
    /\ currentJob' = j
    /\ epc' = [epc EXCEPT ![j] = "filled"]
    /\ UNCHANGED reportVars
    /\ UNCHANGED progVars
    /\ UNCHANGED clientVars
    /\ UNCHANGED startLog
    /\ UNCHANGED pollVars
    /\ UNCHANGED calcVars
    /\ UNCHANGED <<cancelJob, shutdownCh, mpc, syncVars, orchVars, ctxDone,
                   execErr, finalized, fsVars>>

\* executeJob: create the job context, store its cancel handle (outside
\* jobMutex), start the progress reporter and call the driver
StoreCancel(j) ==
    /\ Alive
    /\ epc[j] = "filled"
    /\ cancelJob' = j
    /\ epc' = [epc EXCEPT ![j] = "execute"]
    /\ UNCHANGED reportVars
    /\ UNCHANGED progVars
    /\ UNCHANGED clientVars
    /\ UNCHANGED startLog
    /\ UNCHANGED pollVars
    /\ UNCHANGED calcVars
    /\ UNCHANGED <<currentJob, shutdownCh, mpc, syncVars, orchVars, ctxDone,
                   execErr, finalized, fsVars>>

\* the errors Execute returns: ErrKilled when the subprocess was killed
\* because the job context was cancelled, ErrExecute for every other
\* failure of the driver; executeJob does not tell those apart
ErrExecute == "execute failed"
ErrKilled == "failed to transcode: ffmpeg failed: signal: killed"

\* what a call of Execute can return, given whether the job context is
\* cancelled by the time it returns
ExecuteResults(cancelled) ==
    {"nil", ErrExecute} \cup (IF cancelled THEN {ErrKilled} ELSE {})

\* Execute, seen from executeJob: the call blocks, then returns nil or an
\* error.  The staging area, the destinations and the subprocesses are
\* left out here; the driver's steps follow them.
Execute(j) ==
    /\ Alive
    /\ epc[j] = "execute"
    /\ \E err \in ExecuteResults(ctxDone[j]) :
            execErr' = [execErr EXCEPT ![j] = err]
    /\ epc' = [epc EXCEPT ![j] = "finalize"]
    /\ UNCHANGED reportVars
    /\ UNCHANGED progVars
    /\ UNCHANGED clientVars
    /\ UNCHANGED startLog
    /\ UNCHANGED pollVars
    /\ UNCHANGED calcVars
    /\ UNCHANGED <<workerVars, mpc, syncVars, orchVars, ctxDone, finalized,
                   fsVars>>

\* the manifest_url finalizeJob constructs from the first output's
\* dest_path and the master playlist name
Manifest == "/dest/1/master.m3u8"

\* a result that carries the manifest URL whenever the job completed
JobResultAlwaysManifest(err, outputs) ==
    IF err # "nil"
    THEN [status |-> "FAILED", error_msg |-> err, manifest_url |-> ""]
    ELSE [status |-> "COMPLETED", error_msg |-> "",
          manifest_url |-> Manifest]

\* the JobResultPayload finalizeJob builds from the driver's error and the
\* number of the job's outputs
JobResult(err, outputs) ==
    IF err # "nil"
    THEN [status |-> "FAILED", error_msg |-> err, manifest_url |-> ""]
    ELSE [status |-> "COMPLETED", error_msg |-> "",
          manifest_url |-> IF outputs > 0 THEN Manifest ELSE ""]

\* executeJob: the driver returned; report the result
finalizeJob(j) ==
    /\ Alive
    /\ epc[j] = "finalize"
    /\ finalized' = [finalized EXCEPT
                        ![j] = Append(@, JobResult(execErr[j],
                                                   job[j].nRend))]
    /\ execErr' = [execErr EXCEPT ![j] = "nil"]
    /\ epc' = [epc EXCEPT ![j] = "clear"]
    /\ UNCHANGED reportVars
    /\ UNCHANGED progVars
    /\ UNCHANGED clientVars
    /\ UNCHANGED startLog
    /\ UNCHANGED pollVars
    /\ UNCHANGED calcVars
    /\ UNCHANGED <<workerVars, mpc, syncVars, orchVars, ctxDone, fsVars>>

\* executeJob returns without the deferred clearing of the slot
ClearKeepsSlot(j) ==
    /\ Alive
    /\ epc[j] = "clear"
    /\ ctxDone' = [ctxDone EXCEPT ![j] = TRUE]
    /\ epc' = [epc EXCEPT ![j] = "done"]
    /\ UNCHANGED reportVars
    /\ UNCHANGED progVars
    /\ UNCHANGED clientVars
    /\ UNCHANGED startLog
    /\ UNCHANGED pollVars
    /\ UNCHANGED calcVars
    /\ UNCHANGED <<workerVars, mpc, syncVars, orchVars, execErr, finalized,
                   fsVars>>

\* executeJob: the deferred calls; cancel the job context, then clear the
\* slot under jobMutex
Clear(j) ==
    /\ Alive
    /\ epc[j] = "clear"
    /\ ctxDone' = [ctxDone EXCEPT ![j] = TRUE]
    /\ currentJob' = NoJob
    /\ cancelJob' = NoJob
    /\ epc' = [epc EXCEPT ![j] = "done"]
    /\ UNCHANGED reportVars
    /\ UNCHANGED progVars
    /\ UNCHANGED clientVars
    /\ UNCHANGED startLog
    /\ UNCHANGED pollVars
    /\ UNCHANGED calcVars
    /\ UNCHANGED <<shutdownCh, mpc, syncVars, orchVars, execErr, finalized,
                   fsVars>>

\* the executor's program counters whose step runs between
\* w.jobMutex.Lock() and Unlock(): the fill and the deferred clear
ExecutorLocked == {"spawned", "clear"}

executeJob(j) ==
    \/ Fill(j) \/ StoreCancel(j) \/ Execute(j) \/ finalizeJob(j) \/ Clear(j)

\* -------------------------------------------------------------- reporter --
\* executeJob with its progress reporter, for one job: parseProgress feeds
\* the buffered channel while the driver runs, reportProgress drains it and
\* sends PROCESSING updates, executeJob closes the channel and waits for
\* the reporter before it finalizes.  The driver is one call here.

\* the percentages parseProgress sends: none yet, or some progress
Percents == {0, 50}

\* the reporter goroutine exists: executeJob started it and has not yet
\* seen it return
Reporting(j) == Alive /\ epc[j] \in {"execute", "close", "join"}

\* parseProgress: a progress line of ffmpeg; the send does not block, the
\* update is dropped when the buffer is full
parseProgress(j) ==
    /\ Alive
    /\ epc[j] = "execute"
    /\ \E p \in Percents :
          IF Len(progressCh[j]) < ChanCap
          THEN progressCh' = [progressCh EXCEPT ![j] = Append(@, p)]
          ELSE UNCHANGED progressCh
    /\ UNCHANGED <<chClosed, rpc, lastProgress, updates>>
    /\ UNCHANGED progVars
    /\ UNCHANGED clientVars
    /\ UNCHANGED startLog
    /\ UNCHANGED pollVars
    /\ UNCHANGED calcVars
    /\ UNCHANGED <<workerVars, mpc, syncVars, orchVars, execVars, finalized,
                   fsVars>>

\* executeJob: Execute returns nil or an error
Executed(j) ==
    /\ Alive
    /\ epc[j] = "execute"
    /\ \E err \in ExecuteResults(ctxDone[j]) :
            execErr' = [execErr EXCEPT ![j] = err]
    /\ epc' = [epc EXCEPT ![j] = "close"]
    /\ UNCHANGED reportVars
    /\ UNCHANGED progVars
    /\ UNCHANGED clientVars
    /\ UNCHANGED startLog
    /\ UNCHANGED pollVars
    /\ UNCHANGED calcVars
    /\ UNCHANGED <<workerVars, mpc, syncVars, orchVars, ctxDone, finalized,
                   fsVars>>

\* executeJob: close(progressCh)
CloseProgress(j) ==
    /\ Alive
    /\ epc[j] = "close"
    /\ chClosed' = [chClosed EXCEPT ![j] = TRUE]
    /\ epc' = [epc EXCEPT ![j] = "join"]
    /\ UNCHANGED <<progressCh, rpc, lastProgress, updates>>
    /\ UNCHANGED progVars
    /\ UNCHANGED clientVars
    /\ UNCHANGED startLog
    /\ UNCHANGED pollVars
    /\ UNCHANGED calcVars
    /\ UNCHANGED <<workerVars, mpc, syncVars, orchVars, ctxDone, execErr,
                   finalized, fsVars>>

\* executeJob goes on to finalize without receiving from progressDone
NoWaitProgressDone(j) ==
    /\ Alive
    /\ epc[j] = "join"
    /\ epc' = [epc EXCEPT ![j] = "finalize"]
    /\ UNCHANGED reportVars
    /\ UNCHANGED progVars
    /\ UNCHANGED clientVars
    /\ UNCHANGED startLog
    /\ UNCHANGED pollVars
    /\ UNCHANGED calcVars
    /\ UNCHANGED <<workerVars, mpc, syncVars, orchVars, ctxDone, execErr,
                   finalized, fsVars>>

\* executeJob: <-progressDone, which the reporter closes when it returns
WaitProgressDone(j) ==
    /\ Alive
    /\ epc[j] = "join"
    /\ rpc[j] = "returned"
    /\ epc' = [epc EXCEPT ![j] = "finalize"]
    /\ UNCHANGED reportVars
    /\ UNCHANGED progVars
    /\ UNCHANGED clientVars
    /\ UNCHANGED startLog
    /\ UNCHANGED pollVars
    /\ UNCHANGED calcVars
    /\ UNCHANGED <<workerVars, mpc, syncVars, orchVars, ctxDone, execErr,
                   finalized, fsVars>>

\* reportProgress, case progress, ok := <-progressCh: keep the value, or
\* return when the channel is closed and drained
Receive(j) ==
    /\ Reporting(j)
    /\ rpc[j] = "select"
    /\ IF progressCh[j] # << >>
       THEN /\ lastProgress' = [lastProgress EXCEPT ![j] = Head(progressCh[j])]
            /\ progressCh' = [progressCh EXCEPT ![j] = Tail(@)]
            /\ UNCHANGED rpc
       ELSE /\ chClosed[j]
            /\ rpc' = [rpc EXCEPT ![j] = "returned"]
            /\ UNCHANGED <<progressCh, lastProgress>>
    /\ UNCHANGED <<chClosed, updates>>
    /\ UNCHANGED progVars
    /\ UNCHANGED clientVars
    /\ UNCHANGED startLog
    /\ UNCHANGED pollVars
    /\ UNCHANGED calcVars
    /\ UNCHANGED <<workerVars, mpc, syncVars, orchVars, execVars, finalized,
                   fsVars>>

\* reportProgress, case <-ticker.C with some progress seen: issue the
\* UpdateJobStatus call (a tick without progress does nothing)
TickerFires(j) ==
    /\ Reporting(j)
    /\ rpc[j] = "select"
    /\ lastProgress[j] > 0
    /\ Len(updates[j]) < MaxUpdates
    /\ updates' = [updates EXCEPT ![j] = Append(@, lastProgress[j])]
    /\ rpc' = [rpc EXCEPT ![j] = "update"]
    /\ UNCHANGED <<progressCh, chClosed, lastProgress>>
    /\ UNCHANGED progVars
    /\ UNCHANGED clientVars
    /\ UNCHANGED startLog
    /\ UNCHANGED pollVars
    /\ UNCHANGED calcVars
    /\ UNCHANGED <<workerVars, mpc, syncVars, orchVars, execVars, finalized,
                   fsVars>>

\* reportProgress: the UpdateJobStatus call returns; an error is logged
UpdateJobStatus(j) ==
    /\ Reporting(j)
    /\ rpc[j] = "update"
    /\ rpc' = [rpc EXCEPT ![j] = "select"]
    /\ UNCHANGED <<progressCh, chClosed, lastProgress, updates>>
    /\ UNCHANGED progVars
    /\ UNCHANGED clientVars
    /\ UNCHANGED startLog
    /\ UNCHANGED pollVars
    /\ UNCHANGED calcVars
    /\ UNCHANGED <<workerVars, mpc, syncVars, orchVars, execVars, finalized,
                   fsVars>>

\* reportProgress, case <-ctx.Done(): return
ReporterCancelled(j) ==
    /\ Reporting(j)
    /\ rpc[j] = "select"
    /\ ctxDone[j]
    /\ rpc' = [rpc EXCEPT ![j] = "returned"]
    /\ UNCHANGED <<progressCh, chClosed, lastProgress, updates>>
    /\ UNCHANGED progVars
    /\ UNCHANGED clientVars
    /\ UNCHANGED startLog
    /\ UNCHANGED pollVars
    /\ UNCHANGED calcVars
    /\ UNCHANGED <<workerVars, mpc, syncVars, orchVars, execVars, finalized,
                   fsVars>>

reportProgress(j) ==
    \/ Receive(j) \/ TickerFires(j) \/ UpdateJobStatus(j)
    \/ ReporterCancelled(j)

\* -------------------------------------------------------------- progress --
\* parseProgress line by line, for one job with one transcoder: the prober
\* returns the duration, the stderr reader turns every progress line into
\* a sample and offers it to the channel, the reporter passes on what it
\* received last.

\* the durations the prober reports: none, or the length of the input
Durations == {0, MaxTime - 1}

\* the float64 that is not a number, the result of 0/0; every comparison
\* with it is false, which holds of the code -1 in the comparisons the
\* worker makes (percent > 100, progress.Percent > 0)
NaN == -1

\* parseProgress: the percentage of a line whose time= is cur seconds;
\* the division is a float64 division, x/0 is +Inf for x > 0 and NaN for
\* x = 0, and +Inf is capped like every value above 100
Percent(cur, total) ==
    IF total = 0
    THEN IF cur = 0 THEN NaN ELSE 100
    ELSE IF (cur * 100) \div total > 100 THEN 100
         ELSE (cur * 100) \div total

\* Execute: getMediaDuration returned the duration of the input
Probed(j) ==
    /\ Alive
    /\ epc[j] = "execute"
    /\ duration[j] = Unprobed
    /\ \E d \in Durations : duration' = [duration EXCEPT ![j] = d]
    /\ UNCHANGED <<lines, clock>>
    /\ UNCHANGED reportVars
    /\ UNCHANGED clientVars
    /\ UNCHANGED startLog
    /\ UNCHANGED pollVars
    /\ UNCHANGED calcVars
    /\ UNCHANGED <<workerVars, mpc, syncVars, orchVars, execVars, finalized,
                   fsVars>>

\* a reader whose send waits for room in the channel
ScanLineBlocks(j) ==
    /\ Alive
    /\ epc[j] = "execute"
    /\ duration[j] # Unprobed
    /\ lines[j] < MaxLines
    /\ Len(progressCh[j]) < ChanCap
    /\ \E t \in clock[j]..MaxTime :
          /\ clock' = [clock EXCEPT ![j] = t]
          /\ progressCh' = [progressCh EXCEPT
                               ![j] = Append(@, Percent(t, duration[j]))]
    /\ lines' = [lines EXCEPT ![j] = @ + 1]
    /\ UNCHANGED <<chClosed, rpc, lastProgress, updates, duration>>
    /\ UNCHANGED clientVars
    /\ UNCHANGED startLog
    /\ UNCHANGED pollVars
    /\ UNCHANGED calcVars
    /\ UNCHANGED <<workerVars, mpc, syncVars, orchVars, execVars, finalized,
                   fsVars>>

\* parseProgress: the scanner returns the next progress line, whose time=
\* is not before the last one's; the sample is sent if the channel has
\* room and skipped otherwise
ScanLine(j) ==
    /\ Alive
    /\ epc[j] = "execute"
    /\ duration[j] # Unprobed
    /\ lines[j] < MaxLines
    /\ \E t \in clock[j]..MaxTime :
          /\ clock' = [clock EXCEPT ![j] = t]
          /\ IF Len(progressCh[j]) < ChanCap
             THEN progressCh' = [progressCh EXCEPT
                                    ![j] = Append(@, Percent(t, duration[j]))]
             ELSE UNCHANGED progressCh
    /\ lines' = [lines EXCEPT ![j] = @ + 1]
    /\ UNCHANGED <<chClosed, rpc, lastProgress, updates, duration>>
    /\ UNCHANGED clientVars
    /\ UNCHANGED startLog
    /\ UNCHANGED pollVars
    /\ UNCHANGED calcVars
    /\ UNCHANGED <<workerVars, mpc, syncVars, orchVars, execVars, finalized,
                   fsVars>>

\* the fps= values of a progress line; a line without one leaves fps 0
Rates == 0..MaxFps

\* Go's int(x / y) for whole x and y > 0: the quotient truncated toward
\* zero
Trunc(x, y) == IF x >= 0 THEN x \div y ELSE -((-x) \div y)

\* parseProgress: the ETA of a line; it stays 0 unless fps > 0
Eta(cur, total, fps) ==
    IF fps > 0 THEN Trunc(total - cur, fps) ELSE 0

\* parseProgress, one iteration of the scanner loop in full: the line's
\* time= and fps= give the sample, which is sent if the channel has room
ScanSample(j) ==
    /\ Alive
    /\ epc[j] = "execute"
    /\ duration[j] # Unprobed
    /\ lines[j] < MaxLines
    /\ \E t \in clock[j]..MaxTime, f \in Rates :
          /\ clock' = [clock EXCEPT ![j] = t]
          /\ sample' = [sample EXCEPT
                           ![j] = [percent |-> Percent(t, duration[j]),
                                   fps |-> f,
                                   eta |-> Eta(t, duration[j], f)]]
          /\ IF Len(progressCh[j]) < ChanCap
             THEN progressCh' = [progressCh EXCEPT
                                    ![j] = Append(@, Percent(t, duration[j]))]
             ELSE UNCHANGED progressCh
    /\ lines' = [lines EXCEPT ![j] = @ + 1]
    /\ UNCHANGED <<chClosed, rpc, lastProgress, updates, duration>>
    /\ UNCHANGED clientVars
    /\ UNCHANGED startLog
    /\ UNCHANGED pollVars
    /\ UNCHANGED <<pathVars, audioVars, reader, panicked>>
    /\ UNCHANGED <<workerVars, mpc, syncVars, orchVars, execVars, finalized,
                   fsVars>>

\* the stderr reader as a goroutine of its own: transcodeRendition starts
\* it and nothing waits for it, so that it runs on whatever the driver and
\* the executor do.

\* what no step of the reader changes
ReaderRest ==
    /\ UNCHANGED <<sample, pathVars, audioVars>>
    /\ UNCHANGED <<duration, clock>>
    /\ UNCHANGED clientVars
    /\ UNCHANGED startLog
    /\ UNCHANGED pollVars
    /\ UNCHANGED <<workerVars, mpc, syncVars, orchVars, execVars, finalized,
                   fsVars>>

\* transcodeRendition: go t.parseProgress(stderr, duration, progressCh)
ReaderStart(j) ==
    /\ Alive
    /\ epc[j] = "execute"
    /\ job[j].nRend > 0
    /\ reader[j] = "none"
    /\ reader' = [reader EXCEPT ![j] = "scan"]
    /\ UNCHANGED <<panicked, lines>>
    /\ UNCHANGED reportVars
    /\ ReaderRest

\* parseProgress: scanner.Scan() returns a progress line, which the pipe
\* delivered or the scanner's buffer still held, or it returns false at
\* the end of the stream and the goroutine returns
ReaderScan(j) ==
    /\ Alive
    /\ reader[j] = "scan"
    /\ \/ /\ lines[j] < MaxLines
          /\ lines' = [lines EXCEPT ![j] = @ + 1]
          /\ reader' = [reader EXCEPT ![j] = "send"]
       \/ /\ reader' = [reader EXCEPT ![j] = "done"]
          /\ UNCHANGED lines
    /\ UNCHANGED panicked
    /\ UNCHANGED reportVars
    /\ ReaderRest

\* parseProgress: select { case progressCh <- progress: default: }; a send
\* on a closed channel panics, and the panic ends the process
ReaderSend(j) ==
    /\ Alive
    /\ reader[j] = "send"
    /\ IF chClosed[j]
       THEN /\ panicked' = TRUE
            /\ UNCHANGED progressCh
       ELSE /\ \E p \in Percents :
                  IF Len(progressCh[j]) < ChanCap
                  THEN progressCh' = [progressCh EXCEPT ![j] = Append(@, p)]
                  ELSE UNCHANGED progressCh
            /\ UNCHANGED panicked
    /\ reader' = [reader EXCEPT ![j] = "scan"]
    /\ UNCHANGED <<chClosed, rpc, lastProgress, updates, lines>>
    /\ ReaderRest

\* -------------------------------------------------------------- shutdown --
\* shutdown signals the sync loop first and leaves the current job alone
ShutdownCloseFirst ==
    /\ ~panicked
    /\ mpc = "run"
    /\ shutdownCh' = TRUE
    /\ mpc' = "close"
    /\ UNCHANGED reportVars
    /\ UNCHANGED progVars
    /\ UNCHANGED clientVars
    /\ UNCHANGED startLog
    /\ UNCHANGED pollVars
    /\ UNCHANGED calcVars
    /\ UNCHANGED <<currentJob, cancelJob, syncVars, orchVars, execVars,
                   finalized, fsVars>>

\* main: a signal arrived in a process that has not died of a panic;
\* shutdown cancels the current job, if its cancel handle is stored, under
\* jobMutex
ShutdownCancel ==
    /\ ~panicked
    /\ mpc = "run"
    /\ IF cancelJob # NoJob
       THEN ctxDone' = [ctxDone EXCEPT ![cancelJob] = TRUE]
       ELSE UNCHANGED ctxDone
    /\ mpc' = "close"
    /\ UNCHANGED reportVars
    /\ UNCHANGED progVars
    /\ UNCHANGED clientVars
    /\ UNCHANGED startLog
    /\ UNCHANGED pollVars
    /\ UNCHANGED calcVars
    /\ UNCHANGED <<workerVars, syncVars, orchVars, epc, execErr, finalized,
                   fsVars>>

\* shutdown: close(w.shutdownCh)
ShutdownClose ==
    /\ ~panicked
    /\ mpc = "close"
    /\ shutdownCh' = TRUE
    /\ mpc' = "wait"
    /\ UNCHANGED reportVars
    /\ UNCHANGED progVars
    /\ UNCHANGED clientVars
    /\ UNCHANGED startLog
    /\ UNCHANGED pollVars
    /\ UNCHANGED calcVars
    /\ UNCHANGED <<currentJob, cancelJob, syncVars, orchVars, execVars,
                   finalized, fsVars>>

\* shutdown: w.wg.Wait() returns once the sync loop is gone; main returns
\* and the process, with every goroutine in it, ends
ShutdownWait ==
    /\ ~panicked
    /\ mpc = "wait"
    /\ spc = "exited"
    /\ mpc' = "exit"
    /\ UNCHANGED reportVars
    /\ UNCHANGED progVars
    /\ UNCHANGED clientVars
    /\ UNCHANGED startLog
    /\ UNCHANGED pollVars
    /\ UNCHANGED calcVars
    /\ UNCHANGED <<workerVars, syncVars, orchVars, execVars, finalized,
                   fsVars>>

shutdown == ShutdownCancel \/ ShutdownClose \/ ShutdownWait

\* ---------------------------------------------------------------- driver --
\* Execute step by step, for one job: the staging area under
\* <temp_dir>/<job_id> (tempDir: 0 is the job directory itself, r the
\* staging directory of rendition r), the files ffmpeg staged, the files
\* under each rendition's dest_path with their sizes in chunks, and the
\* subprocesses started.  Every rendition has a dest_path of its own.

ErrTempDir == "failed to create job temp dir"
ErrProbe == "failed to get media duration"
ErrRendDir == "failed to create rendition temp dir"
ErrStart == "failed to transcode: failed to start ffmpeg"
ErrCtx == "failed to transcode: failed to start ffmpeg: context canceled"
ErrExit == "failed to transcode: ffmpeg failed: exit status 1"
ErrCopy == "failed to copy output files"

\* the cleanup as a statement at the end of Execute instead of a deferred
\* call: it runs only when Execute gets there
ReturnNoDefer(j, err, deferred) ==
    /\ execErr' = [execErr EXCEPT ![j] = err]
    /\ epc' = [epc EXCEPT ![j] =
                  IF deferred /\ err = "nil" THEN "cleanup" ELSE "finalize"]

\* Execute returns err; the deferred os.RemoveAll, registered once the job
\* temp directory was created, runs on the way out
Return(j, err, deferred) ==
    /\ execErr' = [execErr EXCEPT ![j] = err]
    /\ epc' = [epc EXCEPT ![j] = IF deferred THEN "cleanup" ELSE "finalize"]

\* Execute: create <temp_dir>/<job_id>
MkdirTemp(j) ==
    /\ Alive
    /\ epc[j] = "execute"
    /\ \/ /\ tempDir' = [tempDir EXCEPT ![j] = {0}]
          /\ epc' = [epc EXCEPT ![j] = "probe"]
          /\ UNCHANGED execErr
       \/ /\ Return(j, ErrTempDir, FALSE)
          /\ UNCHANGED tempDir
    /\ UNCHANGED reportVars
    /\ UNCHANGED progVars
    /\ UNCHANGED clientVars
    /\ UNCHANGED startLog
    /\ UNCHANGED pollVars
    /\ UNCHANGED calcVars
    /\ UNCHANGED <<workerVars, mpc, syncVars, orchVars, ctxDone, finalized,
                   rend, files, staged, dest, spawned>>

\* getMediaDuration: run ffprobe on the input (not bound to the context)
getMediaDuration(j) ==
    /\ Alive
    /\ epc[j] = "probe"
    /\ spawned' = [spawned EXCEPT ![j] = Append(@, "ffprobe")]
    /\ \/ /\ epc' = [epc EXCEPT ![j] = "rendition"]
          /\ rend' = [rend EXCEPT ![j] = 1]
          /\ UNCHANGED execErr
       \/ /\ Return(j, ErrProbe, TRUE)
          /\ UNCHANGED rend
    /\ UNCHANGED reportVars
    /\ UNCHANGED progVars
    /\ UNCHANGED clientVars
    /\ UNCHANGED startLog
    /\ UNCHANGED pollVars
    /\ UNCHANGED calcVars
    /\ UNCHANGED <<workerVars, mpc, syncVars, orchVars, ctxDone, finalized,
                   files, tempDir, staged, dest>>

\* a rendition loop that stops one output short
RenditionSkipsLast(j) ==
    /\ Alive
    /\ epc[j] = "rendition"
    /\ IF rend[j] >= job[j].nRend
       THEN /\ Return(j, "nil", TRUE)
            /\ UNCHANGED tempDir
       ELSE \/ /\ tempDir' = [tempDir EXCEPT ![j] = @ \cup {rend[j]}]
               /\ epc' = [epc EXCEPT ![j] = "start"]
               /\ UNCHANGED execErr
            \/ /\ Return(j, ErrRendDir, TRUE)
               /\ UNCHANGED tempDir
    /\ UNCHANGED reportVars
    /\ UNCHANGED progVars
    /\ UNCHANGED clientVars
    /\ UNCHANGED startLog
    /\ UNCHANGED pollVars
    /\ UNCHANGED calcVars
    /\ UNCHANGED <<workerVars, mpc, syncVars, orchVars, ctxDone, finalized,
                   rend, files, staged, dest, spawned>>

\* Execute: head of the rendition loop; create the rendition's staging
\* directory, or leave the loop and return nil
Rendition(j) ==
    /\ Alive
    /\ epc[j] = "rendition"
    /\ IF rend[j] > job[j].nRend
       THEN /\ Return(j, "nil", TRUE)
            /\ UNCHANGED tempDir
       ELSE \/ /\ tempDir' = [tempDir EXCEPT ![j] = @ \cup {rend[j]}]
               /\ epc' = [epc EXCEPT ![j] = "start"]
               /\ UNCHANGED execErr
            \/ /\ Return(j, ErrRendDir, TRUE)
               /\ UNCHANGED tempDir
    /\ UNCHANGED reportVars
    /\ UNCHANGED progVars
    /\ UNCHANGED clientVars
    /\ UNCHANGED startLog
    /\ UNCHANGED pollVars
    /\ UNCHANGED calcVars
    /\ UNCHANGED <<workerVars, mpc, syncVars, orchVars, ctxDone, finalized,
                   rend, files, staged, dest, spawned>>

\* a transcoder that is started and not waited for: the driver goes on
\* to the commit while it runs
StartDetached(j) ==
    /\ Alive
    /\ epc[j] = "start"
    /\ IF ctxDone[j]
       THEN /\ Return(j, ErrCtx, TRUE)
            /\ UNCHANGED spawned
       ELSE \/ /\ spawned' = [spawned EXCEPT ![j] = Append(@, "ffmpeg")]
               /\ epc' = [epc EXCEPT ![j] = "commit"]
               /\ UNCHANGED execErr
            \/ /\ Return(j, ErrStart, TRUE)
               /\ UNCHANGED spawned
    /\ UNCHANGED <<workerVars, mpc, startLog, syncVars, orchVars, ctxDone,
                   finalized, rend, files, tempDir, staged, dest,
                   reportVars, progVars, clientVars, pollVars,
                   calcVars>>

\* transcodeRendition: build the command and start it; exec refuses to
\* start a command whose context is already done
Start(j) ==
    /\ Alive
    /\ epc[j] = "start"
    /\ IF ctxDone[j]
       THEN /\ Return(j, ErrCtx, TRUE)
            /\ UNCHANGED spawned
       ELSE \/ /\ spawned' = [spawned EXCEPT ![j] = Append(@, "ffmpeg")]
               /\ epc' = [epc EXCEPT ![j] = "ffmpeg"]
               /\ UNCHANGED execErr
            \/ /\ Return(j, ErrStart, TRUE)
               /\ UNCHANGED spawned
    /\ UNCHANGED reportVars
    /\ UNCHANGED progVars
    /\ UNCHANGED clientVars
    /\ UNCHANGED startLog
    /\ UNCHANGED pollVars
    /\ UNCHANGED calcVars
    /\ UNCHANGED <<workerVars, mpc, syncVars, orchVars, ctxDone, finalized,
                   rend, files, tempDir, staged, dest>>

\* the subprocess log's entry for a transcoder that exited with a
\* non-zero status
ExitNonZero == "ffmpeg: exit status 1"

\* a wait whose error is logged and not returned: the driver goes on to
\* commit whatever the failed transcoder left
WaitSwallowsExit(j) ==
    /\ Alive
    /\ epc[j] = "ffmpeg"
    /\ \/ \E n \in 1..MaxFiles :
            /\ staged' = [staged EXCEPT ![j][rend[j]] = 1..n]
            /\ epc' = [epc EXCEPT ![j] = "commit"]
            /\ UNCHANGED <<execErr, spawned>>
       \/ /\ spawned' = [spawned EXCEPT ![j] = Append(@, ExitNonZero)]
          /\ epc' = [epc EXCEPT ![j] = "commit"]
          /\ UNCHANGED <<execErr, staged>>
       \/ /\ ctxDone[j]
          /\ Return(j, ErrKilled, TRUE)
          /\ UNCHANGED <<staged, spawned>>
    /\ UNCHANGED reportVars
    /\ UNCHANGED progVars
    /\ UNCHANGED clientVars
    /\ UNCHANGED startLog
    /\ UNCHANGED pollVars
    /\ UNCHANGED calcVars
    /\ UNCHANGED <<workerVars, mpc, syncVars, orchVars, ctxDone, finalized,
                   rend, files, tempDir, dest>>

\* transcodeRendition: cmd.Wait returns; the process exited with status
\* zero having written its files, exited non-zero, or was killed because
\* the context was cancelled
Wait(j) ==
    /\ Alive
    /\ epc[j] = "ffmpeg"
    /\ \/ \E n \in 1..MaxFiles :
            /\ staged' = [staged EXCEPT ![j][rend[j]] = 1..n]
            /\ epc' = [epc EXCEPT ![j] = "commit"]
            /\ UNCHANGED <<execErr, spawned>>
       \/ /\ spawned' = [spawned EXCEPT ![j] = Append(@, ExitNonZero)]
          /\ Return(j, ErrExit, TRUE)
          /\ UNCHANGED staged
       \/ /\ ctxDone[j]
          /\ Return(j, ErrKilled, TRUE)
          /\ UNCHANGED <<staged, spawned>>
    /\ UNCHANGED reportVars
    /\ UNCHANGED progVars
    /\ UNCHANGED clientVars
    /\ UNCHANGED startLog
    /\ UNCHANGED pollVars
    /\ UNCHANGED calcVars
    /\ UNCHANGED <<workerVars, mpc, syncVars, orchVars, ctxDone, finalized,
                   rend, files, tempDir, dest>>

\* a listing of the staged files that misses an entry
copyDirectoryDropsEntry(j) ==
    /\ Alive
    /\ epc[j] = "commit"
    /\ \/ /\ files' = [files EXCEPT ![j] =
                          staged[j][rend[j]] \ {MaxFiles}]
          /\ epc' = [epc EXCEPT ![j] = "create"]
          /\ UNCHANGED execErr
       \/ /\ Return(j, ErrCopy, TRUE)
          /\ UNCHANGED files
    /\ UNCHANGED reportVars
    /\ UNCHANGED progVars
    /\ UNCHANGED clientVars
    /\ UNCHANGED startLog
    /\ UNCHANGED pollVars
    /\ UNCHANGED calcVars
    /\ UNCHANGED <<workerVars, mpc, syncVars, orchVars, ctxDone, finalized,
                   rend, tempDir, staged, dest, spawned>>

\* copyDirectory: create the destination directory and list the staged
\* files
copyDirectory(j) ==
    /\ Alive
    /\ epc[j] = "commit"
    /\ \/ /\ files' = [files EXCEPT ![j] = staged[j][rend[j]]]
          /\ epc' = [epc EXCEPT ![j] = "create"]
          /\ UNCHANGED execErr
       \/ /\ Return(j, ErrCopy, TRUE)
          /\ UNCHANGED files
    /\ UNCHANGED reportVars
    /\ UNCHANGED progVars
    /\ UNCHANGED clientVars
    /\ UNCHANGED startLog
    /\ UNCHANGED pollVars
    /\ UNCHANGED calcVars
    /\ UNCHANGED <<workerVars, mpc, syncVars, orchVars, ctxDone, finalized,
                   rend, tempDir, staged, dest, spawned>>

\* the entry copyDirectory's loop handles next
NextFile(S) == CHOOSE f \in S : \A g \in S : f <= g

\* copyDirectory: next entry, or all entries copied and the rendition is
\* done; copyFile: open the source and create (truncate) the destination
Create(j) ==
    /\ Alive
    /\ epc[j] = "create"
    /\ IF files[j] = {}
       THEN /\ rend' = [rend EXCEPT ![j] = @ + 1]
            /\ epc' = [epc EXCEPT ![j] = "rendition"]
            /\ UNCHANGED <<execErr, dest>>
       ELSE \/ /\ dest' = [dest EXCEPT ![j][rend[j]][NextFile(files[j])] = 0]
               /\ epc' = [epc EXCEPT ![j] = "write"]
               /\ UNCHANGED <<execErr, rend>>
            \/ /\ Return(j, ErrCopy, TRUE)
               /\ UNCHANGED <<dest, rend>>
    /\ UNCHANGED reportVars
    /\ UNCHANGED progVars
    /\ UNCHANGED clientVars
    /\ UNCHANGED startLog
    /\ UNCHANGED pollVars
    /\ UNCHANGED calcVars
    /\ UNCHANGED <<workerVars, mpc, syncVars, orchVars, ctxDone, finalized,
                   files, tempDir, staged, spawned>>

\* copyFile: io.Copy writes the next chunk of the file, or fails
Write(j) ==
    /\ Alive
    /\ epc[j] = "write"
    /\ LET f == NextFile(files[j])
           size == dest[j][rend[j]][f]
       IN \/ /\ dest' = [dest EXCEPT ![j][rend[j]][f] = size + 1]
             /\ epc' = [epc EXCEPT ![j] =
                           IF size + 1 = FileSize THEN "sync" ELSE "write"]
             /\ UNCHANGED execErr
          \/ /\ Return(j, ErrCopy, TRUE)
             /\ UNCHANGED dest
    /\ UNCHANGED reportVars
    /\ UNCHANGED progVars
    /\ UNCHANGED clientVars
    /\ UNCHANGED startLog
    /\ UNCHANGED pollVars
    /\ UNCHANGED calcVars
    /\ UNCHANGED <<workerVars, mpc, syncVars, orchVars, ctxDone, finalized,
                   rend, files, tempDir, staged, spawned>>

\* copyFile: fsync the destination file; the entry is copied
Sync(j) ==
    /\ Alive
    /\ epc[j] = "sync"
    /\ \/ /\ files' = [files EXCEPT ![j] = @ \ {NextFile(@)}]
          /\ epc' = [epc EXCEPT ![j] = "create"]
          /\ UNCHANGED execErr
       \/ /\ Return(j, ErrCopy, TRUE)
          /\ UNCHANGED files
    /\ UNCHANGED reportVars
    /\ UNCHANGED progVars
    /\ UNCHANGED clientVars
    /\ UNCHANGED startLog
    /\ UNCHANGED pollVars
    /\ UNCHANGED calcVars
    /\ UNCHANGED <<workerVars, mpc, syncVars, orchVars, ctxDone, finalized,
                   rend, tempDir, staged, dest, spawned>>

\* Execute: the deferred os.RemoveAll of the job temp directory
RemoveAll(j) ==
    /\ Alive
    /\ epc[j] = "cleanup"
    /\ tempDir' = [tempDir EXCEPT ![j] = {}]
    /\ staged' = [staged EXCEPT ![j] = [r \in 1..MaxRend |-> {}]]
    /\ epc' = [epc EXCEPT ![j] = "finalize"]
    /\ UNCHANGED reportVars
    /\ UNCHANGED progVars
    /\ UNCHANGED clientVars
    /\ UNCHANGED startLog
    /\ UNCHANGED pollVars
    /\ UNCHANGED calcVars
    /\ UNCHANGED <<workerVars, mpc, syncVars, orchVars, ctxDone, execErr,
                   finalized, rend, files, dest, spawned>>

Driver(j) ==
    \/ MkdirTemp(j) \/ getMediaDuration(j) \/ Rendition(j) \/ Start(j)
    \/ Wait(j) \/ copyDirectory(j) \/ Create(j) \/ Write(j) \/ Sync(j)
    \/ RemoveAll(j)

\* ----------------------------------------------------------------- paths --
\* resolveJobPaths and resolveNASPath on one job path.  A path is the
\* sequence of its characters; "/" is the separator.

Chars == {"/", ".", "a"}

\* the paths an orchestrator may send, the empty one included
Paths == UNION {[1..n -> Chars] : n \in 0..MaxPath}

\* absolute mounts, given with or without a trailing separator
Mounts == {DefaultMount, <<"/", "m", "/">>}

Dot == <<".">>
DotDot == <<".", ".">>

\* filepath.IsAbs on Unix: the path begins with the separator
IsAbs(path) == path # << >> /\ path[1] = "/"

\* the index of the first separator of a path, or one past its end
RECURSIVE SepAt(_, _)
SepAt(path, i) ==
    IF i > Len(path) \/ path[i] = "/" THEN i ELSE SepAt(path, i + 1)

\* the elements of a path: what stands between its separators, the empty
\* elements of repeated separators left out (rule 1 of filepath.Clean)
RECURSIVE Elements(_)
Elements(path) ==
    IF path = << >> THEN << >>
    ELSE IF path[1] = "/" THEN Elements(Tail(path))
    ELSE LET n == SepAt(path, 1)
         IN <<SubSeq(path, 1, n - 1)>> \o Elements(SubSeq(path, n, Len(path)))

\* rules 2 to 4 of filepath.Clean over the elements read so far: drop
\* ".", drop an inner ".." with the element before it, drop a ".." that
\* begins a rooted path
RECURSIVE Collapse(_, _, _)
Collapse(elems, out, rooted) ==
    IF elems = << >> THEN out
    ELSE LET e == Head(elems)
         IN IF e = Dot THEN Collapse(Tail(elems), out, rooted)
            ELSE IF e = DotDot
            THEN IF out # << >> /\ out[Len(out)] # DotDot
                 THEN Collapse(Tail(elems), SubSeq(out, 1, Len(out) - 1),
                               rooted)
                 ELSE IF rooted THEN Collapse(Tail(elems), out, rooted)
                 ELSE Collapse(Tail(elems), Append(out, e), rooted)
            ELSE Collapse(Tail(elems), Append(out, e), rooted)

\* the elements written with one separator between them
RECURSIVE Separated(_)
Separated(elems) ==
    IF elems = << >> THEN << >>
    ELSE IF Len(elems) = 1 THEN elems[1]
    ELSE elems[1] \o <<"/">> \o Separated(Tail(elems))

\* filepath.Clean: the shortest equivalent path; "." for the empty one
Clean(path) ==
    LET body == Separated(Collapse(Elements(path), << >>, IsAbs(path)))
    IN IF IsAbs(path) THEN <<"/">> \o body
       ELSE IF body = << >> THEN Dot ELSE body

\* strings.TrimPrefix(s, "/")
TrimPrefix(s) == IF s # << >> /\ s[1] = "/" THEN Tail(s) ELSE s

\* filepath.Join of two elements: empty ones are ignored, the others are
\* joined by a separator and the result is cleaned
Join(a, b) ==
    IF a = << >> /\ b = << >> THEN << >>
    ELSE IF a = << >> THEN Clean(b)
    ELSE IF b = << >> THEN Clean(a)
    ELSE Clean(a \o <<"/">> \o b)

\* a resolver that prepends the mount to every path
resolveNASPathJoinsAll(path) ==
    Join(NasMountPath, TrimPrefix(Clean(path)))

\* resolveNASPath: an absolute path as it is, a relative one below the
\* mount
resolveNASPath(path) ==
    IF IsAbs(path) THEN path
    ELSE Join(NasMountPath, TrimPrefix(Clean(path)))

\* resolveJobPaths: the job's path is replaced by its resolution
Resolve ==
    /\ resolves < MaxResolves
    /\ jobPath' = resolveNASPath(jobPath)
    /\ resolves' = resolves + 1
    /\ UNCHANGED <<sample, NasMountPath, rawPath, audioVars, reader,
                   panicked>>
    /\ UNCHANGED <<workerVars, mpc, startLog, syncVars, orchVars, execVars,
                   finalized, fsVars, reportVars, progVars, clientVars,
                   pollVars>>

\* ----------------------------------------------------------------- audio --
\* the audio arguments of a rendition's command line

\* an audio codec and an audio bitrate a job may name: none, or one that
\* is not the default
Codecs == {"", "opus"}
Bitrates == {"", "64k"}

\* the audio settings of a job with one rendition, as JSON: the
\* rendition's own fields, the job's audio_config and the job's profile
AudioSettings ==
    [output : [audio_codec : Codecs, audio_bitrate : Bitrates],
     audio_config : [codec : {"", "mp3"}, bitrate : {"", "96k"}],
     profile : [audio_codec : {"", "ac3"}, audio_bitrate : {"", "192k"}]]

\* JobSpec.GetAudioCodec as the driver calls it, without a rendition
GetAudioCodec ==
    IF audio.profile.audio_codec # "" THEN audio.profile.audio_codec
    ELSE "aac"

\* JobSpec.GetAudioBitrate as the driver calls it, without a rendition
GetAudioBitrate ==
    IF audio.profile.audio_bitrate # "" THEN audio.profile.audio_bitrate
    ELSE "128k"

\* transcodeRendition: "-c:a", audioCodec, "-b:a", audioBitrate
AudioArgs ==
    /\ args = NoArgs
    /\ args' = [codec |-> GetAudioCodec, bitrate |-> GetAudioBitrate]
    /\ UNCHANGED <<sample, pathVars, audio, reader, panicked>>
    /\ UNCHANGED <<workerVars, mpc, startLog, syncVars, orchVars, execVars,
                   finalized, fsVars, reportVars, progVars, clientVars,
                   pollVars>>

\* ---------------------------------------------------------------- client --
\* One request of the orchestrator client: the retrying HTTP client makes
\* its attempts, doRequest maps what it returns to an error, and the
\* endpoint's method hands that error to its caller.

\* retryClient.RetryMax: the retries after the first attempt
RetryMax == 3

Endpoints == {"Register", "Sync", "UpdateJobStatus", "FinalizeJob"}

\* an attempt that got no response: connection refused, reset, timeout
ConnErr == 0

\* what one attempt can meet: no response, or a response with this status
Outcomes == {ConnErr, 200, 400, 404, 429, 500, 501, 503}

\* the retry policy of the client retryablehttp.NewClient() returns, which
\* NewOrchestratorClient leaves in place: an attempt is made again after a
\* connection error, after 429 and after a 5xx other than 501
CheckRetry(o) ==
    \/ o = ConnErr
    \/ o = 429
    \/ o >= 500 /\ o # 501

\* the errors of the client: their dynamic type and what they say
StateError == [type |-> "*OrchestratorStateError",
               msg |-> "orchestrator state error: status 404"]
ErrRequest == [type |-> "error", msg |-> "request failed"]
ErrStatus == [type |-> "error", msg |-> "API returned error status"]
ErrDecode == [type |-> "error", msg |-> "failed to decode response"]

\* fmt.Errorf("...: %w", err): a new error of the generic type
Wrap(prefix, err) == [type |-> "error", msg |-> prefix \o ": " \o err.msg]

\* doRequest after c.httpClient.Do returned: Do gives an error when the
\* last attempt got no response or the retries ran out on a status the
\* policy retries; otherwise it gives the response of the last attempt
doRequest(e, last, decodes) ==
    IF CheckRetry(last) THEN ErrRequest
    ELSE IF last = 404 THEN StateError
    ELSE IF last >= 400 THEN ErrStatus
    ELSE IF e = "Sync" /\ ~decodes THEN ErrDecode
    ELSE NoError

\* Register, Sync, UpdateJobStatus, FinalizeJob: what the method returns
\* for the error doRequest gave it
ClientMethod(e, err) ==
    CASE err = NoError -> NoError
      [] e = "Register" -> Wrap("registration failed", err)
      [] e = "Sync" ->
            IF err.type = "*OrchestratorStateError" THEN err
            ELSE Wrap("sync failed", err)
      [] OTHER -> err

\* a method of the client is called
Request(e) ==
    /\ cpc \in {"idle", "returned"}
    /\ cpc' = "attempt"
    /\ endpoint' = e
    /\ tries' = << >>
    /\ cresult' = NoError
    /\ UNCHANGED <<workerVars, mpc, startLog, syncVars, orchVars, execVars,
                   finalized, fsVars, reportVars, progVars, pollVars,
                   calcVars>>

\* the retrying client sends the request once more and decides whether
\* to try again: the policy says so and a retry is left
Attempt ==
    /\ cpc = "attempt"
    /\ \E o \in Outcomes :
          /\ tries' = Append(tries, o)
          /\ cpc' = IF CheckRetry(o) /\ Len(tries) < RetryMax
                    THEN "attempt" ELSE "respond"
    /\ UNCHANGED <<endpoint, cresult>>
    /\ UNCHANGED <<workerVars, mpc, startLog, syncVars, orchVars, execVars,
                   finalized, fsVars, reportVars, progVars, pollVars,
                   calcVars>>

\* doRequest and the method return
Respond ==
    /\ cpc = "respond"
    /\ \E decodes \in BOOLEAN :
          cresult' = ClientMethod(endpoint,
                                  doRequest(endpoint, tries[Len(tries)],
                                            decodes))
    /\ cpc' = "returned"
    /\ UNCHANGED <<endpoint, tries>>
    /\ UNCHANGED <<workerVars, mpc, startLog, syncVars, orchVars, execVars,
                   finalized, fsVars, reportVars, progVars, pollVars,
                   calcVars>>

\* ---------------------------------------------------------------- legacy --
\* The polling variant of the worker (main.go, first Worker): the job
\* polling goroutine asks for a job when the slot is empty and the host is
\* not busy and runs executeJob itself; the heartbeat goroutine only reads
\* the slot and is left out.

\* the rest of the tick does not change the worker; the loop waits for
\* the ticker again
PollRest ==
    UNCHANGED <<workerVars, mpc, startLog, syncVars, orchVars, execVars,
                finalized, fsVars, reportVars, progVars, clientVars,
                calcVars>>

\* jobPollingLoop: the ticker fires; read the slot under jobMutex and
\* go on only if it is empty
PollTick ==
    /\ Alive
    /\ ppc = "wait"
    /\ ppc' = IF currentJob = NoJob THEN "stats" ELSE "wait"
    /\ UNCHANGED pstats
    /\ PollRest

\* jobPollingLoop: the shutdown channel is closed; the loop returns
PollExit ==
    /\ Alive
    /\ ppc = "wait"
    /\ shutdownCh
    /\ ppc' = "exited"
    /\ UNCHANGED pstats
    /\ PollRest

\* jobPollingLoop: take the load snapshot, which may fail
PollStats ==
    /\ Alive
    /\ ppc = "stats"
    /\ \/ \E b \in BOOLEAN : pstats' = b /\ ppc' = "capacity"
       \/ ppc' = "wait" /\ UNCHANGED pstats
    /\ PollRest

\* jobPollingLoop: skip the request when the host is busy
PollCapacity ==
    /\ Alive
    /\ ppc = "capacity"
    /\ ppc' = IF pstats THEN "wait" ELSE "caps"
    /\ pstats' = FALSE
    /\ PollRest

\* requestAndExecuteJob: get the capabilities, which may fail
PollCapabilities ==
    /\ Alive
    /\ ppc = "caps"
    /\ ppc' \in {"request", "wait"}
    /\ UNCHANGED pstats
    /\ PollRest

\* a polling loop that starts executeJob as a goroutine of its own
RequestJobAsync ==
    /\ Alive
    /\ ppc = "request"
    /\ \/ /\ ppc' = "wait"
          /\ UNCHANGED <<nextJob, job, epc>>
       \/ /\ nextJob <= MaxJobs
          /\ \E js \in JobSpecs({MaxRend}) :
                job' = [job EXCEPT ![nextJob] = js]
          /\ epc' = [epc EXCEPT ![nextJob] = "spawned"]
          /\ nextJob' = nextJob + 1
          /\ ppc' = "wait"
    /\ UNCHANGED pstats
    /\ UNCHANGED <<workerVars, mpc, startLog, syncVars, ctxDone, execErr,
                   finalized, fsVars, reportVars, progVars, clientVars,
                   calcVars>>

\* requestAndExecuteJob: RequestJob fails or has no job, and the tick is
\* over; or it returns a job and the loop calls executeJob
RequestJob ==
    /\ Alive
    /\ ppc = "request"
    /\ \/ /\ ppc' = "wait"
          /\ UNCHANGED <<nextJob, job, epc>>
       \/ /\ nextJob <= MaxJobs
          /\ \E js \in JobSpecs({MaxRend}) :
                job' = [job EXCEPT ![nextJob] = js]
          /\ epc' = [epc EXCEPT ![nextJob] = "spawned"]
          /\ nextJob' = nextJob + 1
          /\ ppc' = "execute"
    /\ UNCHANGED pstats
    /\ UNCHANGED <<workerVars, mpc, startLog, syncVars, ctxDone, execErr,
                   finalized, fsVars, reportVars, progVars, clientVars,
                   calcVars>>

\* the JobResultPayload the legacy finalizeJob builds: no manifest URL
LegacyResult(err) ==
    IF err # "nil"
    THEN [status |-> "FAILED", error_msg |-> err, manifest_url |-> ""]
    ELSE [status |-> "COMPLETED", error_msg |-> "", manifest_url |-> ""]

\* executeJob of the legacy variant: the driver returned; report the result
finalizeLegacy(j) ==
    /\ Alive
    /\ epc[j] = "finalize"
    /\ finalized' = [finalized EXCEPT
                        ![j] = Append(@, LegacyResult(execErr[j]))]
    /\ execErr' = [execErr EXCEPT ![j] = "nil"]
    /\ epc' = [epc EXCEPT ![j] = "clear"]
    /\ UNCHANGED <<workerVars, mpc, startLog, syncVars, orchVars, ctxDone,
                   fsVars, reportVars, progVars, clientVars, pollVars,
                   calcVars>>

\* requestAndExecuteJob: executeJob returned, and with it the tick
PollJoin ==
    /\ Alive
    /\ ppc = "execute"
    /\ epc[nextJob - 1] = "done"
    /\ ppc' = "wait"
    /\ UNCHANGED pstats
    /\ PollRest

\* shutdown of the legacy variant: w.wg.Wait() returns once the polling
\* loop is gone; after the final heartbeat main returns
PollShutdownWait ==
    /\ mpc = "wait"
    /\ ppc = "exited"
    /\ mpc' = "exit"
    /\ UNCHANGED <<workerVars, startLog, syncVars, orchVars, execVars,
                   finalized, fsVars, reportVars, progVars, clientVars,
                   pollVars, calcVars>>

jobPollingLoop ==
    \/ PollTick \/ PollExit \/ PollStats \/ PollCapacity
    \/ PollCapabilities \/ RequestJob \/ PollJoin

\* ---------------------------------------------------------- specification --
\* the process as main starts it: the worker is constructed, nothing is
\* discovered or registered and no goroutine runs
Init ==
    /\ InitFields
    /\ NoCalc
    /\ mpc = "discover"
    /\ startLog = << >>
    /\ spc = "unstarted"
    /\ ppc = "unstarted"
    /\ nextJob = 1
    /\ job = [j \in Jobs |-> NoJobSpec]
    /\ epc = [j \in Jobs |-> "none"]

Next == main \/ syncLoop \/ (\E j \in Jobs : executeJob(j)) \/ shutdown

Spec == Init /\ [][Next]_vars

\* the worker right after a sync tick accepted job 1, whose executor then
\* runs the driver step by step while main may shut the worker down
InitDriver ==
    /\ InitWorker
    /\ nextJob = 2
    /\ \E n \in 0..MaxRend :
          job = [j \in Jobs |->
                    IF j = 1 THEN [input |-> "present", nRend |-> n]
                    ELSE NoJobSpec]
    /\ epc = [j \in Jobs |-> IF j = 1 THEN "spawned" ELSE "none"]

NextDriver ==
    \/ \E j \in Jobs :
          \/ Fill(j) \/ StoreCancel(j) \/ Driver(j) \/ finalizeJob(j)
          \/ Clear(j)
    \/ LoopExit
    \/ shutdown

SpecDriver == InitDriver /\ [][NextDriver]_vars

\* the same start, the executor running the driver as one call next to
\* its progress reporter
NextReport ==
    \/ \E j \in Jobs :
          \/ Fill(j) \/ StoreCancel(j) \/ parseProgress(j) \/ Executed(j)
          \/ CloseProgress(j) \/ WaitProgressDone(j) \/ finalizeJob(j)
          \/ Clear(j) \/ reportProgress(j)
    \/ LoopExit
    \/ shutdown

SpecReport == InitDriver /\ [][NextReport]_vars

\* the same start, the driver's progress followed line by line
NextProgress ==
    \/ \E j \in Jobs :
          \/ Fill(j) \/ StoreCancel(j) \/ Probed(j) \/ ScanLine(j)
          \/ Executed(j) \/ CloseProgress(j) \/ WaitProgressDone(j)
          \/ finalizeJob(j) \/ Clear(j) \/ reportProgress(j)
    \/ LoopExit
    \/ shutdown

SpecProgress == InitDriver /\ [][NextProgress]_vars

\* the same start, the stderr reader on its own: the samples it builds
NextSample ==
    \E j \in Jobs :
        \/ Fill(j) \/ StoreCancel(j) \/ Probed(j) \/ ScanSample(j)

SpecSample == InitDriver /\ [][NextSample]_vars

\* the worker after startup, with no job and no tick under way
Quiet ==
    /\ InitFields
    /\ mpc = "run"
    /\ startLog = Started
    /\ spc = "wait"
    /\ ppc = "unstarted"
    /\ nextJob = 1
    /\ job = [j \in Jobs |-> NoJobSpec]
    /\ epc = [j \in Jobs |-> "none"]

\* a job path arrives at a worker whose mount is configured
InitPaths ==
    /\ Quiet
    /\ NoAudio
    /\ NasMountPath \in Mounts
    /\ rawPath \in Paths
    /\ jobPath = rawPath
    /\ resolves = 0

SpecPaths == InitPaths /\ [][Resolve]_vars

\* a job with one rendition reaches transcodeRendition
InitAudio ==
    /\ Quiet
    /\ NoPaths
    /\ audio \in AudioSettings
    /\ args = NoArgs

SpecAudio == InitAudio /\ [][AudioArgs]_vars

\* the executor next to its reporter and the stderr reader the driver
\* left behind
NextReader ==
    \/ \E j \in Jobs :
          \/ Fill(j) \/ StoreCancel(j) \/ ReaderStart(j) \/ ReaderScan(j)
          \/ ReaderSend(j) \/ Executed(j) \/ CloseProgress(j)
          \/ WaitProgressDone(j) \/ finalizeJob(j) \/ Clear(j)
          \/ reportProgress(j)
    \/ LoopExit
    \/ shutdown

SpecReader == InitDriver /\ [][NextReader]_vars

\* the orchestrator client on its own: one request after the other
NextClient == (\E e \in Endpoints : Request(e)) \/ Attempt \/ Respond

\* no request is under way when the client is created
InitClient ==
    /\ InitWorker
    /\ nextJob = 1
    /\ job = [j \in Jobs |-> NoJobSpec]
    /\ epc = [j \in Jobs |-> "none"]

SpecClient == InitClient /\ [][NextClient]_vars

\* the legacy worker after main registered it and started its loops
InitPolling ==
    /\ InitFields
    /\ NoCalc
    /\ mpc = "run"
    /\ startLog = <<"register:ok">>
    /\ spc = "unstarted"
    /\ ppc = "wait"
    /\ nextJob = 1
    /\ job = [j \in Jobs |-> NoJobSpec]
    /\ epc = [j \in Jobs |-> "none"]

NextPolling ==
    \/ jobPollingLoop
    \/ \E j \in Jobs :
          \/ Fill(j) \/ StoreCancel(j) \/ Execute(j) \/ finalizeLegacy(j)
          \/ Clear(j)
    \/ ShutdownCancel \/ ShutdownClose \/ PollShutdownWait

SpecPolling == InitPolling /\ [][NextPolling]_vars

\* the worker with its last job, accepted by the sync tick that just
\* ended: the orchestrator hands out no further job while the sync loop
\* keeps ticking, the executor runs next to its reporter, and main may
\* shut the worker down
InitLive ==
    /\ InitWorker
    /\ nextJob = MaxJobs + 1
    /\ job = [j \in Jobs |->
                 IF j = 1 THEN [input |-> "present", nRend |-> MaxRend]
                 ELSE NoJobSpec]
    /\ epc = [j \in Jobs |-> IF j = 1 THEN "spawned" ELSE "none"]

NextLive ==
    \/ NextReport
    \/ Tick \/ Derive \/ SyncCall \/ Register \/ SyncRetry

\* the goroutines keep being scheduled and their blocking calls return:
\* the driver's subprocesses terminate, the orchestrator requests return
\* or time out, and a select that is ready again and again on the
\* progress channel eventually takes that case
Fairness ==
    \A j \in Jobs :
        /\ WF_vars(\/ Fill(j) \/ StoreCancel(j) \/ Executed(j)
                   \/ CloseProgress(j) \/ WaitProgressDone(j)
                   \/ finalizeJob(j) \/ Clear(j))
        /\ WF_vars(UpdateJobStatus(j))
        /\ SF_vars(Receive(j))

SpecLive == InitLive /\ [][NextLive]_vars /\ Fairness

\* the whole worker with the scheduling shutdown relies on: shutdown's
\* own steps are taken, every step of a tick returns (the snapshot and the
\* requests have a 10 s context, the slot mutex is held for a few
\* statements only), and the loop's select, ready again and again on the
\* closed stop channel, eventually takes that case
StopFairness ==
    /\ WF_vars(ShutdownClose)
    /\ WF_vars(ShutdownWait)
    /\ WF_vars(performSync)
    /\ SF_vars(LoopExit)

SpecStop == Init /\ [][Next]_vars /\ StopFairness
\* ------------------------------------------------------------ properties --
\* a job a sync tick accepted: the assignment arrived while the slot was
\* empty
Accepted(j) == epc[j] \in Running \cup {"unresolved", "done"}

\* nothing more will happen for the job: the tick dropped it, its executor
\* returned, or the process ended
Over(j) == epc[j] \in {"unresolved", "done"} \/ ~Alive

\* C1: serial execution: at most one accepted job is running at any
\* instant, the window between spawning the executor goroutine and that
\* goroutine filling the slot included.
SerialExecution ==
    Cardinality({j \in Jobs : epc[j] \in Running}) <= 1

\* C2: every accepted job gets exactly one Finalize call over the whole
\* run, never two and, once nothing more happens for the job, not zero;
\* its status is COMPLETED or FAILED.
ExactlyOneFinalize ==
    \A j \in Jobs :
        Accepted(j) =>
            /\ Len(finalized[j]) <= 1
            /\ Over(j) =>
                /\ Len(finalized[j]) = 1
                /\ finalized[j][1].status \in {"COMPLETED", "FAILED"}

\* C3: an accepted job whose resolved input does not exist is finalized
\* FAILED at once, with an error message containing "input file does not
\* exist", and no prober or transcoder subprocess is started for it.
InputMissingFinalized ==
    \A j \in Jobs :
        (epc[j] = "unresolved" /\ job[j].input = "absent") =>
            /\ finalized[j] = << [status |-> "FAILED",
                                  error_msg |-> "input file does not exist",
                                  manifest_url |-> ""] >>
            /\ spawned[j] = << >>

\* C4: the commit is atomic at the file level: in every state, a copy
\* that failed or was interrupted part-way included, each file under a
\* rendition's dest_path is absent or complete (as large as its staged
\* source).
CommitAtomic ==
    \A j \in Jobs : \A r \in 1..MaxRend : \A f \in 1..MaxFiles :
        dest[j][r][f] \in {Absent, FileSize}

\* the driver returned an error for the job, cancellation included
Failed(j) ==
    \/ epc[j] \in {"cleanup", "finalize"} /\ execErr[j] # "nil"
    \/ finalized[j] # << >> /\ finalized[j][1].status = "FAILED"

\* C5: stage-then-commit: when a job failed or was cancelled, no file is
\* present under the dest_path of a rendition that was not committed at
\* the moment of the failure (rendition rend[j], in progress then, and
\* the later ones); and files appear under a rendition's dest_path only
\* once its transcoder exited with status zero.
StageThenCommit ==
    \A j \in Jobs : \A r \in 1..MaxRend : \A f \in 1..MaxFiles :
        /\ (Failed(j) /\ r >= rend[j]) => dest[j][r][f] = Absent
        /\ dest[j][r][f] # Absent =>
            /\ r <= rend[j]
            /\ r = rend[j] => epc[j] \notin {"rendition", "start", "ffmpeg"}

\* C6: whenever Execute has returned, on every exit path, the job temp
\* directory <temp_dir>/<job_id> and its subtree no longer exist.
TempDirRemoved ==
    \A j \in Jobs :
        epc[j] \in {"finalize", "clear", "done"} =>
            /\ tempDir[j] = {}
            /\ \A r \in 1..MaxRend : staged[j][r] = {}

\* Execute returned because the job was cancelled while ffmpeg was running
\* in a rendition's staging directory
ReturnedAfterKill ==
    \E j \in Jobs :
        /\ epc[j] = "finalize"
        /\ execErr[j] = ErrKilled
        /\ "ffmpeg" \in {spawned[j][i] : i \in DOMAIN spawned[j]}
        /\ tempDir[j] = {}

\* the sync loop takes a step that leaves program counter pc
Leaves(pc) == spc = pc /\ spc' # pc

\* C7: state-loss recovery within one tick: Register is invoked only after
\* the tick's first Sync returned 404 and at most once, a successful
\* Register is followed by one retry of Sync, and a failed Register or any
\* outcome of the retry other than an assignment ends the tick with no
\* further Register or Sync call; the loop then waits for the next tick.
StateLossRecovery ==
    [][ /\ Leaves("sync") =>
            \/ spc' = "register" /\ tickLog' = <<"stats:ok", "sync:404">>
            \/ spc' \in {"assigned", "wait"}
        /\ Leaves("register") =>
            /\ tickLog = <<"stats:ok", "sync:404">>
            /\ \/ spc' = "retry"
                  /\ tickLog' = <<"stats:ok", "sync:404", "register:ok">>
               \/ spc' = "wait" /\ tickLog' = << >>
        /\ Leaves("retry") =>
            /\ tickLog = <<"stats:ok", "sync:404", "register:ok">>
            /\ \/ spc' = "assigned"
                  /\ tickLog' = <<"stats:ok", "sync:404", "register:ok",
                                  "sync:ok">>
               \/ spc' = "wait" /\ tickLog' = << >>
        /\ Cardinality({i \in DOMAIN tickLog' :
                            tickLog'[i] \in {"register:ok"}}) <= 1
        /\ Cardinality({i \in DOMAIN tickLog' :
                            tickLog'[i] \in {"sync:404", "sync:ok"}}) <= 2
      ]_vars

\* a tick recovered from the state loss and its retried Sync brought an
\* assignment
StateLossRecovered ==
    /\ spc = "assigned"
    /\ tickLog = <<"stats:ok", "sync:404", "register:ok", "sync:ok">>

\* C8: an assignment is accepted, that is an executor is started for it,
\* if and only if the slot is empty when performSync looks, whatever the
\* load snapshot says; a rejection starts no executor, leaves the slot,
\* the running job and its context alone and makes no Finalize call.
AcceptanceRule ==
    [][ /\ Leaves("assigned") =>
            /\ currentJob = NoJob => spc' = "resolve"
            /\ currentJob # NoJob => spc' = "reject"
        /\ Leaves("resolve") =>
            epc'[syncResp.job_id] = "spawned"
        /\ Leaves("reject") =>
            /\ epc' = [epc EXCEPT ![syncResp.job_id] = "rejected"]
            /\ UNCHANGED <<currentJob, cancelJob, ctxDone, finalized>>
      ]_vars

\* C9: from the acceptance of a job until its executor returns, every
\* Sync payload the worker sends reports BUSY with that job's id.
NoIdleWindow ==
    spc \in {"sync", "retry"} =>
        \A j \in Jobs :
            epc[j] \in Running =>
                payload = [status |-> "BUSY", current_job_id |-> j]

\* C10: status derivation on every tick: BUSY with the slot's job id when
\* the slot is occupied, BUSY with an empty id when the slot is empty and
\* the load snapshot has is_busy, IDLE otherwise; the status is IDLE or
\* BUSY, and the id is non-empty iff the status is BUSY and a job is in
\* the slot.  The payload is sent as derived.
StatusDerivation ==
    [][ /\ Leaves("derive") =>
            /\ currentJob # NoJob =>
                payload' = [status |-> "BUSY", current_job_id |-> currentJob]
            /\ (currentJob = NoJob /\ stats) =>
                payload' = [status |-> "BUSY", current_job_id |-> NoJob]
            /\ (currentJob = NoJob /\ ~stats) =>
                payload' = [status |-> "IDLE", current_job_id |-> NoJob]
            /\ payload'.status \in {"IDLE", "BUSY"}
            /\ payload'.current_job_id # NoJob
                    <=> (payload'.status = "BUSY" /\ currentJob # NoJob)
        /\ spc \in {"sync", "register", "retry"} =>
            /\ payload.status \in {"IDLE", "BUSY"}
            /\ spc' \in {"register", "retry"} => payload' = payload
      ]_vars

\* a tick derived BUSY from the host load alone, the slot being empty
BusyFromLoad ==
    /\ spc = "sync"
    /\ currentJob = NoJob
    /\ payload = [status |-> "BUSY", current_job_id |-> NoJob]

\* C11: within a job the reported statuses are ordered: PROCESSING updates
\* first, then the one terminal Finalize.  Once Finalize has been issued
\* the reporter has returned, so that no UpdateJobStatus call is in flight
\* or can be issued any more; there is never a second Finalize, and an
\* executor that returned has issued exactly one, COMPLETED or FAILED.
StatusOrder ==
    \A j \in Jobs :
        /\ Len(finalized[j]) <= 1
        /\ finalized[j] # << >> =>
            /\ rpc[j] = "returned"
            /\ finalized[j][1].status \in {"COMPLETED", "FAILED"}
        /\ epc[j] = "done" => Len(finalized[j]) = 1

\* a job that sent PROCESSING updates and was then finalized
UpdatesThenFinalize ==
    \E j \in Jobs :
        /\ updates[j] # << >>
        /\ epc[j] = "done"
        /\ Len(finalized[j]) = 1

\* C12: cancelled mid-job: when the signal arrives while a job is running,
\* then by the time the process exits the job's executor has returned (its
\* transcoder subprocess is gone), its staging directory is removed, it
\* has exactly one Finalize and the slot is cleared; and the Finalize
\* issued for it after the signal is FAILED.
CancelledMidJob ==
    [][ \A j \in Jobs :
          /\ (mpc = "wait" /\ mpc' = "exit" /\ epc[j] # "none") =>
                /\ epc[j] = "done"
                /\ tempDir[j] = {}
                /\ Len(finalized[j]) = 1
                /\ currentJob = NoJob
                /\ cancelJob = NoJob
          /\ (mpc # "run" /\ finalized'[j] # finalized[j]) =>
                finalized'[j][Len(finalized'[j])].status = "FAILED"
      ]_vars

DriverStates == {"execute", "probe", "rendition", "start", "ffmpeg",
                 "commit", "create", "write", "sync"}

\* the errors of Execute that come from the cancelled context
CancelErrors == {ErrCtx, ErrKilled}

\* C14: cancellation is job failure of kind Cancelled: when the driver
\* returns from any of its states with the job context cancelled, it
\* returns an error that comes from the cancellation, and the job is then
\* finalized FAILED with that error; a cancelled job is never finalized
\* COMPLETED.
CancelledIsFailed ==
    [][ \A j \in Jobs :
          /\ (epc[j] \in DriverStates /\ ctxDone[j]
                /\ epc'[j] \in {"cleanup", "finalize"}) =>
                execErr'[j] \in CancelErrors
          /\ (finalized'[j] # finalized[j] /\ execErr[j] \in CancelErrors) =>
                finalized'[j] = Append(finalized[j],
                                       [status |-> "FAILED",
                                        error_msg |-> execErr[j],
                                        manifest_url |-> ""])
      ]_vars

\* C15: the current-job slot, job and cancel handle alike, is written only
\* by a step that holds the slot mutex; so the executor's write of the
\* cancel handle is never concurrent with shutdown's read of it.
SlotUnderMutex ==
    [][ (currentJob' # currentJob \/ cancelJob' # cancelJob) =>
            \E j \in Jobs : epc'[j] # epc[j] /\ epc[j] \in ExecutorLocked
      ]_vars

StateLossKeepsJob ==
    [][ ( \/ spc = "sync" /\ spc' = "register"
          \/ spc = "register" /\ spc' # "register"
          \/ spc = "retry" /\ spc' # "retry" )
            => UNCHANGED <<currentJob, cancelJob, ctxDone, finalized,
                           updates, epc, execErr>>
      ]_vars

\* the tick re-registered after a 404 while a job was executing, its
\* context live
ReRegisteredMidJob ==
    /\ spc = "retry"
    /\ tickLog = <<"stats:ok", "sync:404", "register:ok">>
    /\ currentJob # NoJob
    /\ cancelJob = currentJob
    /\ epc[currentJob] = "execute"
    /\ ~ctxDone[currentJob]

\* the number of transcoder subprocesses started for the job
Transcoders(j) ==
    Cardinality({i \in DOMAIN spawned[j] : spawned[j][i] = "ffmpeg"})

\* the job was finalized COMPLETED
Completed(j) ==
    finalized[j] # << >> /\ finalized[j][1].status = "COMPLETED"

\* C18: a job is finalized COMPLETED only after every one of its
\* renditions has been transcoded and committed: by then one transcoder
\* ran per rendition, the rendition loop is past the last rendition, each
\* rendition's dest_path holds its files, all complete, and the driver
\* has returned, so that no commit follows the COMPLETED Finalize.
CompletedAfterCommits ==
    \A j \in Jobs :
        Completed(j) =>
            /\ epc[j] \in {"clear", "done"}
            /\ rend[j] = job[j].nRend + 1
            /\ Transcoders(j) = job[j].nRend
            /\ \A r \in 1..job[j].nRend :
                  /\ \E f \in 1..MaxFiles : dest[j][r][f] = FileSize
                  /\ \A f \in 1..MaxFiles :
                        dest[j][r][f] \in {Absent, FileSize}

\* a job with several renditions was finalized COMPLETED
CompletedAllRenditions ==
    \E j \in Jobs : Completed(j) /\ job[j].nRend = MaxRend

\* the files present under the dest_path of rendition r
DestFiles(j, r) == {f \in 1..MaxFiles : dest[j][r][f] # Absent}

ExitedNonZero(j) ==
    \E i \in DOMAIN spawned[j] : spawned[j][i] = ExitNonZero

\* C20: a non-zero exit of the transcoder for rendition i fails the job:
\* the driver returns at once, rendition i and the later ones have no
\* file under their dest_path, no transcoder is started after the one
\* that failed, and the job is finalized FAILED, never COMPLETED, with
\* the transcoder's non-empty error as error_msg.
NonZeroExitFailsJob ==
    \A j \in Jobs :
        ExitedNonZero(j) =>
            /\ epc[j] \in {"cleanup", "finalize", "clear", "done"}
            /\ rend[j] \in 1..job[j].nRend
            /\ Transcoders(j) = rend[j]
            /\ \A r \in 1..MaxRend : r >= rend[j] => DestFiles(j, r) = {}
            /\ epc[j] \in {"cleanup", "finalize"} =>
                  execErr[j] = ErrExit /\ finalized[j] = << >>
            /\ epc[j] \in {"clear", "done"} =>
                  /\ finalized[j] = << [status |-> "FAILED",
                                        error_msg |-> ErrExit,
                                        manifest_url |-> ""] >>
                  /\ ErrExit # ""

\* the transcoder of the second rendition exited non-zero after the first
\* rendition was committed, and the job was finalized
SecondRenditionFailed ==
    \E j \in Jobs :
        /\ ExitedNonZero(j)
        /\ rend[j] = 2
        /\ DestFiles(j, 1) # {}
        /\ epc[j] = "done"

\* C21: progress emission is non-blocking: as long as the transcoder runs
\* and has a progress line to read, the stderr reader can take its step,
\* whatever the channel holds and whether or not the reporter still
\* receives; a line read while the channel is full leaves the channel as
\* it is (the sample is dropped), a line read while it has room adds its
\* sample at the end.
NonBlockingProgress ==
    /\ [](\A j \in Jobs :
             (Alive /\ epc[j] = "execute" /\ duration[j] # Unprobed
                /\ lines[j] < MaxLines) => ENABLED ScanLine(j))
    /\ [][ \A j \in Jobs :
              lines'[j] # lines[j] =>
                 /\ lines'[j] = lines[j] + 1
                 /\ Len(progressCh[j]) >= ChanCap =>
                       progressCh'[j] = progressCh[j]
                 /\ Len(progressCh[j]) < ChanCap =>
                       progressCh'[j] =
                           Append(progressCh[j],
                                  Percent(clock'[j], duration[j]))
         ]_vars

\* the reader went on reading while the channel was full and the reporter
\* had returned
ReadPastFullChannel ==
    \E j \in Jobs :
        /\ epc[j] = "execute"
        /\ rpc[j] = "returned"
        /\ Len(progressCh[j]) = ChanCap
        /\ lines[j] > ChanCap

\* C22: progress updates may be dropped but are never reordered, and the
\* most recent sample wins: every UpdateJobStatus call carries the sample
\* of the line the stderr reader read last before that reporter tick,
\* not an older sample, and so the values of successive calls follow the
\* order in which the reader emitted them (for the non-decreasing time=
\* of one transcoder: they do not decrease).
FreshestSampleWins ==
    [][ \A j \in Jobs :
          updates'[j] # updates[j] =>
             /\ updates'[j] =
                    Append(updates[j], Percent(clock[j], duration[j]))
             /\ updates[j] # << >> =>
                    updates[j][Len(updates[j])]
                        <= updates'[j][Len(updates'[j])]
      ]_vars

\* nothing was committed for the job: no file under any dest_path
NothingCommitted(j) ==
    \A r \in 1..MaxRend : DestFiles(j, r) = {}

\* C23 as stated: a job with zero renditions succeeds as a no-op: no
\* transcoder subprocess is spawned, nothing is committed, and its
\* Finalize is COMPLETED with an empty manifest_url.
ZeroRenditionsSucceed ==
    \A j \in Jobs :
        (epc[j] # "none" /\ job[j].nRend = 0) =>
            /\ Transcoders(j) = 0
            /\ NothingCommitted(j)
            /\ finalized[j] # << >> =>
                  finalized[j] = << [status |-> "COMPLETED",
                                     error_msg |-> "",
                                     manifest_url |-> ""] >>

\* C23, amended: for a job with zero renditions no transcoder subprocess
\* is spawned and nothing is committed; the driver returns nil unless the
\* job temp directory could not be created or the prober failed, and the
\* job is finalized COMPLETED with an empty manifest_url exactly when the
\* driver returned nil, FAILED with that staging or probing error
\* otherwise.
ZeroRenditionsNoOp ==
    \A j \in Jobs :
        (epc[j] # "none" /\ job[j].nRend = 0) =>
            /\ Transcoders(j) = 0
            /\ NothingCommitted(j)
            /\ execErr[j] \in {"nil", ErrTempDir, ErrProbe}
            /\ finalized[j] # << >> =>
                  \/ finalized[j] = << [status |-> "COMPLETED",
                                        error_msg |-> "",
                                        manifest_url |-> ""] >>
                  \/ \E e \in {ErrTempDir, ErrProbe} :
                        finalized[j] = << [status |-> "FAILED",
                                           error_msg |-> e,
                                           manifest_url |-> ""] >>
            /\ (epc[j] = "finalize" /\ execErr[j] = "nil") =>
                  JobResult(execErr[j], job[j].nRend) =
                      [status |-> "COMPLETED", error_msg |-> "",
                       manifest_url |-> ""]

\* a job with zero renditions was probed and finalized COMPLETED with an
\* empty manifest_url
ZeroRenditionsCompleted ==
    \E j \in Jobs :
        /\ job[j].nRend = 0
        /\ epc[j] = "done"
        /\ spawned[j] = <<"ffprobe">>
        /\ finalized[j] = << [status |-> "COMPLETED", error_msg |-> "",
                              manifest_url |-> ""] >>

\* the statuses of the attempts that were followed by another attempt
Retried == {tries[i] : i \in 1..(Len(tries) - 1)}

\* C24: error mapping of the orchestrator client: a 404 from any endpoint
\* is returned as the distinct state-loss error, never as a generic one,
\* and is not retried; any other 4xx is returned as a generic bad-status
\* error and is not retried; only connection errors and 5xx responses are
\* retried, at most RetryMax times per request.
ClientErrorMapping ==
    /\ Len(tries) <= RetryMax + 1
    /\ \A o \in Retried : o = ConnErr \/ o >= 500
    /\ cpc = "returned" =>
          LET last == tries[Len(tries)]
          IN /\ last = 404 => cresult.type = "*OrchestratorStateError"
             /\ (last >= 400 /\ last < 500 /\ last # 404) =>
                   /\ cresult.type = "error"
                   /\ cresult.msg \in
                         {ErrStatus.msg,
                          Wrap("registration failed", ErrStatus).msg,
                          Wrap("sync failed", ErrStatus).msg}

\* C25: sync errors are tick-local: a tick that fails (load snapshot,
\* Sync, re-registration or retried Sync) ends with the loop waiting for
\* the ticker, performSync's locals gone as after any tick, and changes
\* nothing else; while the process runs the waiting loop can take its
\* next tick, which derives the status and issues a Sync again; the loop
\* leaves only from its wait, once the stop channel is closed.
TickLocalErrors ==
    /\ []((Alive /\ spc = "wait") =>
             /\ ENABLED Tick
             /\ stats = FALSE
             /\ payload = NoPayload
             /\ syncResp = NoAssignment
             /\ tickLog = << >>)
    /\ [][ /\ (loopLog' = SyncFailed /\ loopLog' # loopLog) =>
                 /\ spc \in {"wait", "sync", "register", "retry"}
                 /\ spc' = "wait"
                 /\ UNCHANGED <<workerVars, mpc, orchVars, execVars,
                                finalized>>
           /\ (spc \in {"sync", "register", "retry"}
                 /\ spc' \notin {spc, "register", "retry", "assigned"}) =>
                    spc' = "wait"
           /\ (spc' = "exited" /\ spc # "exited") =>
                 spc = "wait" /\ shutdownCh
           /\ (spc = "wait" /\ spc' \notin {"wait", "exited"}) =>
                 spc' = "derive"
           /\ (spc = "derive" /\ spc' # "derive") => spc' = "sync"
         ]_vars

\* a tick failed while a job was executing, and the loop waits for the
\* next tick, no shutdown under way
WaitingAfterFailedTick ==
    /\ spc = "wait"
    /\ loopLog = SyncFailed
    /\ mpc = "run"
    /\ \E j \in Jobs : epc[j] = "execute"

\* C26: startup ordering: the sync loop is started, and so a Sync issued
\* or a job accepted, only after capability discovery and the initial
\* Register have both succeeded, in that order; when either fails the
\* process exits with failure: the sync loop is never started and no job
\* is accepted.
StartupOrdering ==
    /\ [](/\ spc # "unstarted" => startLog = Started
          /\ startLog # Started =>
                /\ tickLog = << >>
                /\ nextJob = 1
                /\ \A j \in Jobs : epc[j] = "none"
          /\ mpc = "fatal" <=>
                startLog \in {<<"capabilities:err">>,
                              <<"capabilities:ok", "register:err">>})
    /\ [][ /\ mpc = "fatal" => UNCHANGED vars
           /\ (spc = "unstarted" /\ spc' # "unstarted") =>
                 /\ spc' = "wait"
                 /\ mpc = "register"
                 /\ mpc' = "run"
         ]_vars

\* the initial registration failed after the capabilities were found, and
\* the process exited without a sync loop
RegistrationFailedAtStartup ==
    /\ mpc = "fatal"
    /\ startLog = <<"capabilities:ok", "register:err">>
    /\ spc = "unstarted"

\* C27: a sync tick is pure with respect to worker-local state except for
\* accepting at most one assignment: no step of the sync loop, in a tick
\* that fails, gets no assignment or rejects one, changes the slot's job
\* or cancel handle, a job context, a Finalize or an executor; and the one
\* step that starts an executor starts it for the tick's assignment alone
\* and ends the tick, so that a tick starts at most one.
SyncTickPure ==
    [][ /\ (syncVars' # syncVars /\ spc # "resolve") =>
              /\ UNCHANGED <<currentJob, cancelJob, shutdownCh, ctxDone,
                             execErr, finalized>>
              /\ \A j \in Jobs :
                    epc'[j] # epc[j] =>
                       /\ spc = "reject"
                       /\ j = syncResp.job_id
                       /\ epc'[j] = "rejected"
        /\ (spc = "resolve" /\ spc' # "resolve") =>
              /\ UNCHANGED <<currentJob, cancelJob, shutdownCh, ctxDone,
                             execErr, finalized>>
              /\ \A j \in Jobs : epc'[j] # epc[j] => j = syncResp.job_id
              /\ spc' = "wait"
      ]_vars

\* a tick failed while a job was in the slot with its cancel handle, and
\* both are still there
SlotKeptAcrossFailedTick ==
    /\ spc = "wait"
    /\ loopLog = SyncFailed
    /\ currentJob # NoJob
    /\ cancelJob = currentJob
    /\ ~ctxDone[currentJob]

\* C28: in the legacy polling variant the worker requests work only when
\* it is idle and the host is not under heavy load: a tick goes on past
\* its idle check only with the slot empty, past its capacity check only
\* with a snapshot that is not busy, RequestJob is called only at the end
\* of those checks and with no job running; and since the loop runs
\* executeJob itself, the loop is inside that call for as long as a job
\* runs, so that it never requests a second job meanwhile.
PollsOnlyWhenIdle ==
    /\ [](\A j \in Jobs :
             epc[j] \in Running =>
                /\ ppc = "execute"
                /\ j = nextJob - 1
                /\ \A k \in Jobs : k # j => epc[k] \notin Running)
    /\ [][ /\ (ppc = "wait" /\ ppc' \notin {"wait", "exited"}) =>
                 /\ currentJob = NoJob
                 /\ ppc' = "stats"
           /\ (ppc = "capacity" /\ ppc' # "capacity") =>
                 ppc' = IF pstats THEN "wait" ELSE "caps"
           /\ (ppc' = "caps" /\ ppc # "caps") => ppc = "capacity"
           /\ (ppc' = "request" /\ ppc # "request") => ppc = "caps"
           /\ (ppc = "request" /\ ppc' # "request") =>
                 /\ currentJob = NoJob
                 /\ cancelJob = NoJob
                 /\ \A j \in Jobs : epc[j] \notin Running
         ]_vars

\* the loop called executeJob for a second job after the first one's
\* executor had returned
SecondJobAfterFirst ==
    /\ ppc = "execute"
    /\ epc[1] = "done"
    /\ epc[2] = "execute"
    /\ currentJob = 2

\* the rendition's commit has finished: its files are at dest_path, all
\* complete
Committed(j, r) ==
    /\ DestFiles(j, r) # {}
    /\ \A f \in DestFiles(j, r) : dest[j][r][f] = FileSize

\* C29: renditions are processed strictly serially in declared order: the
\* transcoders started so far are those of renditions 1 to the current
\* one, each started only after the one before was waited for and its
\* rendition committed; nothing is at the dest_path of a later rendition,
\* so commits happen in declared order; and while a transcoder runs it is
\* the only one, that of the current rendition.
SerialRenditions ==
    \A j \in Jobs :
        /\ Transcoders(j) <= job[j].nRend
        /\ epc[j] \in {"execute", "probe"} => Transcoders(j) = 0
        /\ epc[j] \in {"rendition", "start"} => Transcoders(j) = rend[j] - 1
        /\ epc[j] \in {"ffmpeg", "commit", "create", "write", "sync"} =>
              Transcoders(j) = rend[j]
        /\ \A r \in 1..MaxRend :
              /\ r < Transcoders(j) => Committed(j, r)
              /\ (r < rend[j] /\ epc[j] \in DriverStates) => Committed(j, r)
              /\ r > rend[j] => DestFiles(j, r) = {}
              /\ (r = rend[j] /\ epc[j] \in {"rendition", "start", "ffmpeg"})
                    => DestFiles(j, r) = {}

\* the transcoder of the second rendition runs, the first rendition
\* committed
SecondTranscoderRuns ==
    \E j \in Jobs :
        /\ epc[j] = "ffmpeg"
        /\ rend[j] = 2
        /\ Transcoders(j) = 2
        /\ Committed(j, 1)

\* C30: when the prober reports a total duration of 0, every progress
\* sample has percent 0: those in the channel and the one the reporter
\* holds; the reporter therefore issues no UpdateJobStatus call for the
\* job.  (The transcode goes on whatever the samples are.)
ZeroDurationNoUpdates ==
    \A j \in Jobs :
        duration[j] = 0 =>
            /\ \A i \in DOMAIN progressCh[j] : progressCh[j][i] = 0
            /\ lastProgress[j] = 0
            /\ updates[j] = << >>

\* C31: every sample the stderr reader builds has a percent between 0 and
\* 100, an fps that is not negative and an ETA that is not negative,
\* whatever the line's time, its fps and the total duration are, a time
\* past the total duration included.
SampleInRange ==
    \A j \in Jobs :
        /\ sample[j].percent \in 0..100
        /\ sample[j].fps >= 0
        /\ sample[j].eta >= 0

\* the directory names a path leads through, walked from the root
Walk(path) == Collapse(Elements(path), << >>, TRUE)

\* a path in normal form: absolute, without ".", ".." or empty elements
\* and without a trailing separator (the root apart)
Normal(path) ==
    /\ IsAbs(path)
    /\ path = <<"/">> \o Separated(Elements(path))
    /\ \A i \in DOMAIN Elements(path) :
          Elements(path)[i] \notin {Dot, DotDot}

FirstSet(own, global, default) ==
    IF own # "" THEN own ELSE IF global # "" THEN global ELSE default

\* C33: the audio codec and bitrate passed to the transcoder are the
\* rendition's own value when it is not empty, otherwise the job's
\* audio_config value when it is not empty, otherwise "aac" and "128k".
AudioPrecedence ==
    args # NoArgs =>
        /\ args.codec = FirstSet(audio.output.audio_codec,
                                 audio.audio_config.codec, "aac")
        /\ args.bitrate = FirstSet(audio.output.audio_bitrate,
                                   audio.audio_config.bitrate, "128k")

\* C34: no progress sample is sent on the progress channel after the
\* executor closed it: no stderr reader is about to send once the channel
\* is closed, and the process never dies of a send on a closed channel.
NoSendAfterClose ==
    /\ ~panicked
    /\ \A j \in Jobs : chClosed[j] => reader[j] # "send"

\* C35: the rejection of an assignment never finds the slot empty: the
\* sync loop never dies of a nil job while it logs a rejection.
RejectSeesJob == ~(spc = "reject" /\ panicked)

\* C36: shutdown cancels every job: once shutdown's cancel step is over
\* and as long as the process lives, no executor is past the creation of
\* its job context with that context not cancelled, whether it was started
\* before the signal or by a sync tick that was in flight.
ShutdownCancelsEveryJob ==
    \A j \in Jobs :
        (mpc \in {"close", "wait"}
            /\ epc[j] \in Running \ {"spawned", "filled"}) => ctxDone[j]

\* the positions of performSync after the load snapshot
PastSnapshot == {"derive", "sync", "register", "retry", "assigned",
                 "resolve", "reject"}

\* C37: a tick whose load snapshot fails ends there: the loop is back at
\* its wait with the failure logged, no Sync or Register call was made
\* and no assignment taken, and the slot, the jobs and the executors are
\* as they were; a tick gets past the snapshot only with a snapshot taken.
SnapshotFailureEndsTick ==
    /\ [](spc \in PastSnapshot =>
             tickLog # << >> /\ tickLog[1] = "stats:ok")
    /\ [][ (spc = "wait" /\ loopLog # SyncFailed /\ loopLog' = SyncFailed) =>
               /\ spc' = "wait"
               /\ tickLog' = << >>
               /\ payload' = NoPayload
               /\ syncResp' = NoAssignment
               /\ UNCHANGED <<workerVars, orchVars, execVars, finalized>>
         ]_vars

\* the first tick after startup failed and no job was handed out
FirstTickFailed ==
    /\ spc = "wait"
    /\ loopLog = SyncFailed
    /\ mpc = "run"
    /\ nextJob = 1
    /\ currentJob = NoJob

\* C38: the executor always reaches Finalize after the driver returned:
\* from the moment Execute is back, closing the progress channel and
\* waiting for the reporter lead to the Finalize call.
ExecutorReachesFinalize ==
    \A j \in Jobs : (epc[j] = "close") ~> (epc[j] = "finalize")

\* C39: shutdown terminates: once shutdown has cancelled the job and goes
\* on to close the stop channel, the sync loop exits and shutdown's wait
\* returns, so that the process exits, whatever the orchestrator answers;
\* a sync loop that has exited starts no tick.
ShutdownTerminates ==
    /\ (mpc = "close") ~> (mpc = "exit" /\ spc = "exited")
    /\ [][spc = "exited" => spc' = "exited"]_vars
====
